---- MODULE Spec2Model ----
(***************************************************************************)
(* Model of the query-manager core: the data join service                  *)
(* (data-join-service, src/unnamed/part_002) and the query result store    *)
(* (src/QueryResultStore.js).                                              *)
(***************************************************************************)
EXTENDS Integers, Sequences, FiniteSets, TLC

VARIABLES
  leftDataset,     \* result1.data of joinQueries
  rightDataset,    \* result2.data of joinQueries
  joinStrategies,  \* the normalized strategies joinQueries iterates over
  jpc,             \* position of joinQueries or joinMultipleQueries
  jidx,            \* index of the next strategy of the for-of loop
  joinResults,     \* joinResults object: entries keyed by strategy name
  bestJoinName,
  bestJoinCount,
  bestJoin,        \* bestJoin of the returned object
  joinConfig,      \* the joinConditions argument of joinQueries
  joinSpecs,       \* the joinSpecs argument of joinMultipleQueries
  fetches,         \* per source: the _executeQuery call and its result
  multiResult,     \* currentResult of joinMultipleQueries
  steps,           \* the _performJoin calls made so far
  outcome,         \* the object returned by the join call
  trackingOptions, \* the trackingOptions of processResultTracking
  currentResults,  \* its currentResults
  executions,      \* the rows of the query_executions table
  previousExecutions,  \* what getPreviousExecutionsWithResults returned
  markedResults,   \* markedData of the returned object
  tpc,             \* position of processResultTracking
  signatures,      \* the generateQuerySignature calls made: arguments and result
  wrapped,         \* the calls of the ...WithStorage functions, the last one running
  exec,            \* an execution record and the calls that update it
  fuzzy,           \* a call of _performFuzzyJoin: arguments, matches found, rows returned
  stats,           \* the statistics a tracking function returned
  evaluated,       \* a call of a helper of the join service: arguments and result
  init,            \* initialization of the result store: flag, pools, callers
  now,             \* the clock (Date.now()), in seconds
  table,           \* the rows of the query_results table, by id
  resultsCache,    \* this.resultsCache: entries, least recently used first
  compressionEnabled,   \* this.compressionEnabled
  compressionThreshold, \* this.config.compressionThreshold
  calls,           \* the calls of the store's methods in flight
  opsLeft,         \* calls that may still be started
  hist             \* per id: what was stored, deleted and swept so far

callVars == <<joinConfig, joinSpecs, fetches, multiResult, steps>>

moreVars == <<evaluated, init>>

extraVars == <<signatures, wrapped, exec, fuzzy, stats, moreVars>>

trackOwn == <<trackingOptions, currentResults, executions, previousExecutions,
              markedResults, tpc>>

trackVars == <<trackOwn, extraVars>>

joinOwn == <<leftDataset, rightDataset, joinStrategies, jpc, jidx,
             joinResults, bestJoinName, bestJoinCount, bestJoin, callVars, outcome>>

joinVars == <<joinOwn, trackVars>>

storeVars == <<now, table, resultsCache, compressionEnabled, compressionThreshold,
               calls, opsLeft, hist>>

vars == <<joinVars, storeVars>>

(***************************************************************************)
(* Bounds of the model.                                                    *)
(***************************************************************************)
MaxRows == 3
MaxStrategies == 2
MaxBestRows == 2
MaxSources == 3
MaxFetchedRows == 1
MaxTrackedRows == 2
MaxExecutions == 2
MaxSqlLen == 3
MaxSignatures == 2

(***************************************************************************)
(* Generic helpers.                                                        *)
(***************************************************************************)
IdxSeq(n) == [i \in 1..n |-> i]

\* the parts of ss, the last one first
RECURSIVE Backwards(_)
Backwards(ss) == IF ss = <<>> THEN <<>> ELSE Backwards(Tail(ss)) \o Head(ss)

\* the rows pushed by the iterations of a loop, in the order of the iterations
RECURSIVE Flatten(_)
Flatten(ss) == IF ss = <<>> THEN <<>> ELSE Head(ss) \o Flatten(Tail(ss))

RECURSIVE JoinWith(_, _)
JoinWith(parts, sep) ==
  IF parts = <<>> THEN <<>>
  ELSE IF Len(parts) = 1 THEN parts[1]
  ELSE parts[1] \o sep \o JoinWith(Tail(parts), sep)

SeqsUpTo(S, n) == UNION {[1..m -> S] : m \in 0..n}

RECURSIVE SumOf(_)
SumOf(xs) == IF xs = <<>> THEN 0 ELSE Head(xs) + SumOf(Tail(xs))

(***************************************************************************)
(* JavaScript values.  A string is the sequence of its characters.  A      *)
(* value carries its type tag t, the text s of a number, string or date    *)
(* (epoch milliseconds), and for arrays and plain objects the own keys ks  *)
(* and the element / property values ps (primitives).                      *)
(***************************************************************************)
Prim(t, s) == [t |-> t, s |-> s]
JsUndefined == [t |-> "undefined", s |-> <<>>, ks |-> <<>>, ps |-> <<>>]
JsNull == [t |-> "null", s |-> <<>>, ks |-> <<>>, ps |-> <<>>]
JsNumber(s) == [t |-> "number", s |-> s, ks |-> <<>>, ps |-> <<>>]
JsStr(s) == [t |-> "string", s |-> s, ks |-> <<>>, ps |-> <<>>]
JsDate(ms) == [t |-> "date", s |-> ms, ks |-> <<>>, ps |-> <<>>]
JsObject(ks, ps) == [t |-> "object", s |-> <<>>, ks |-> ks, ps |-> ps]
JsArray(ps) ==
  [t |-> "array", s |-> <<>>, ks |-> [i \in 1..Len(ps) |-> ToString(i - 1)], ps |-> ps]

IsNullish(v) == v.t \in {"undefined", "null"}
IsPrimitive(v) == v.t \in {"number", "string"}
\* typeof v === 'object'
TypeofObject(v) == v.t \in {"null", "date", "array", "object"}

\* a === b on primitives
PrimStrictEq(a, b) == a.t = b.t /\ a.s = b.s

\* a === b on values held by two different rows: objects, arrays and dates
\* of different rows are different references
StrictEq(a, b) ==
  \/ a.t = "null" /\ b.t = "null"
  \/ a.t = "undefined" /\ b.t = "undefined"
  \/ IsPrimitive(a) /\ IsPrimitive(b) /\ PrimStrictEq(a, b)

\* String(value)
StringOf(v) ==
  CASE v.t = "undefined" -> <<"u", "n", "d", "e", "f", "i", "n", "e", "d">>
    [] v.t = "null" -> <<"n", "u", "l", "l">>
    [] v.t \in {"number", "string"} -> v.s
    [] v.t = "date" -> <<"D", "a", "t", "e", " ">> \o v.s
    [] v.t = "array" -> JoinWith([i \in 1..Len(v.ps) |-> v.ps[i].s], <<",">>)
    [] v.t = "object" -> <<"[", "o", "b", "j", "e", "c", "t", " ", "O", "b", "j", "e", "c", "t", "]">>

\* Object.keys(value) and value[key] of an object, array or date
OwnKeys(v) == v.ks
HasOwn(v, key) == \E i \in 1..Len(v.ks) : v.ks[i] = key
OwnGet(v, key) == v.ps[CHOOSE i \in 1..Len(v.ks) : v.ks[i] = key]

(***************************************************************************)
(* Rows: the ordered own properties of a row object, as [key, val]         *)
(* entries with distinct keys.                                             *)
(***************************************************************************)
Has(row, key) == \E i \in 1..Len(row) : row[i].key = key
Get(row, key) == row[CHOOSE i \in 1..Len(row) : row[i].key = key].val
Put(row, key, val) ==
  IF Has(row, key)
  THEN [i \in 1..Len(row) |-> IF row[i].key = key THEN [key |-> key, val |-> val] ELSE row[i]]
  ELSE Append(row, [key |-> key, val |-> val])

\* a row argument that may be null
SomeRow(row) == [isNull |-> FALSE, fields |-> row]
NullRow == [isNull |-> TRUE, fields |-> <<>>]

\* keys starting with '_'
InternalKeys == {"_fuzzyScore", "_tracking", "_internal"}

_getNestedProperty(obj, path) ==
  IF obj.isNull THEN JsNull
  ELSE IF Has(obj.fields, path) THEN Get(obj.fields, path) ELSE JsUndefined

(***************************************************************************)
(* Join conditions and strategies.  A condition is [leftKey, rightKey,     *)
(* comparator]; comparator "none" is a condition without a custom          *)
(* comparator function.                                                    *)
(***************************************************************************)
Cond(l, r) == [leftKey |-> l, rightKey |-> r, comparator |-> "none"]

NULLText == <<"N", "U", "L", "L">>
KeySeparator == <<":", ":">>

_createMultiConditionKey(row, joinConditions, side) ==
  IF row.isNull THEN NULLText
  ELSE LET keyParts ==
             [c \in 1..Len(joinConditions) |->
                LET keyPath == IF side = "left" THEN joinConditions[c].leftKey
                               ELSE joinConditions[c].rightKey
                    value == _getNestedProperty(row, keyPath)
                IN IF IsNullish(value) THEN NULLText ELSE StringOf(value)]
       IN JoinWith(keyParts, KeySeparator)

\* a comparison by string form only
CompareConditionText(condition, leftRow, rightRow) ==
  LET leftValue == _getNestedProperty(leftRow, condition.leftKey)
      rightValue == _getNestedProperty(rightRow, condition.rightKey)
  IN IF IsNullish(leftValue) THEN IsNullish(rightValue)
     ELSE ~IsNullish(rightValue) /\ StringOf(leftValue) = StringOf(rightValue)

\* the body of the every() callback of _compareJoinConditions
CompareCondition(condition, leftRow, rightRow) ==
  LET leftValue == _getNestedProperty(leftRow, condition.leftKey)
      rightValue == _getNestedProperty(rightRow, condition.rightKey)
  IN IF condition.comparator # "none"
       THEN StringOf(leftValue) = StringOf(rightValue)
     ELSE IF IsNullish(leftValue)
       THEN IsNullish(rightValue)
     ELSE IF leftValue.t = "date" /\ rightValue.t = "date"
       THEN leftValue.s = rightValue.s
     ELSE IF leftValue.t = "array" /\ rightValue.t = "array"
       THEN /\ Len(leftValue.ps) = Len(rightValue.ps)
            /\ \A i \in 1..Len(leftValue.ps) : PrimStrictEq(leftValue.ps[i], rightValue.ps[i])
     ELSE IF TypeofObject(leftValue) /\ TypeofObject(rightValue)
       THEN IF rightValue.t = "null" THEN FALSE
            ELSE /\ Len(OwnKeys(leftValue)) = Len(OwnKeys(rightValue))
                 /\ \A i \in 1..Len(OwnKeys(leftValue)) :
                      LET key == OwnKeys(leftValue)[i]
                      IN /\ HasOwn(rightValue, key)
                         /\ PrimStrictEq(OwnGet(leftValue, key), OwnGet(rightValue, key))
     ELSE StrictEq(leftValue, rightValue)

_compareJoinConditions(joinConditions, leftRow, rightRow) ==
  IF leftRow.isNull \/ rightRow.isNull THEN FALSE
  ELSE \A c \in 1..Len(joinConditions) : CompareCondition(joinConditions[c], leftRow, rightRow)

\* { ...a, ...b } of two non-null objects
ObjSpread(a, b) ==
  LET newKeys == SelectSeq(OwnKeys(b), LAMBDA k : ~HasOwn(a, k))
      keys == OwnKeys(a) \o newKeys
  IN JsObject(keys, [i \in 1..Len(keys) |->
                       IF HasOwn(b, keys[i]) THEN OwnGet(b, keys[i]) ELSE OwnGet(a, keys[i])])

\* one iteration of the for-of loop of _mergeRows over Object.entries(rightRow)
MergeEntry(result, key, value) ==
  IF key \in InternalKeys THEN result
  ELSE IF Has(result, key) /\ ~StrictEq(Get(result, key), value)
    THEN IF Get(result, key).t = "array" /\ value.t = "array"
           THEN Put(result, key, JsArray(Get(result, key).ps \o value.ps))
         ELSE IF TypeofObject(Get(result, key)) /\ TypeofObject(value)
                 /\ Get(result, key).t # "null" /\ value.t # "null"
           THEN Put(result, key, ObjSpread(Get(result, key), value))
         ELSE Put(result, "right_" \o key, value)
  ELSE IF ~Has(result, key) THEN Put(result, key, value)
  ELSE result

RECURSIVE MergeEntries(_, _)
MergeEntries(result, entries) ==
  IF entries = <<>> THEN result
  ELSE MergeEntries(MergeEntry(result, Head(entries).key, Head(entries).val), Tail(entries))

\* transform "none" is a call without a transform function
_mergeRows(leftRow, rightRow, transform) ==
  LET result == IF leftRow.isNull THEN <<>> ELSE leftRow.fields
  IN IF rightRow.isNull THEN result ELSE MergeEntries(result, rightRow.fields)

(***************************************************************************)
(* A joined row: the merged row, with the positions of the left and right  *)
(* rows it was merged from (0 for a null side).                            *)
(***************************************************************************)
Joined(row, l, r) == [row |-> row, l |-> l, r |-> r]

\* lookupMap: composite key -> positions of the right rows that have it
LookupMap(rightDs, joinConditions) ==
  LET keyOf == [j \in 1..Len(rightDs) |->
                  _createMultiConditionKey(SomeRow(rightDs[j]), joinConditions, "right")]
  IN [key \in {keyOf[j] : j \in 1..Len(rightDs)} |->
        SelectSeq(IdxSeq(Len(rightDs)), LAMBDA j : keyOf[j] = key)]

\* lookupMap.get(key) || []
LeftMatches(lookupMap, leftRow, joinConditions) ==
  LET key == _createMultiConditionKey(SomeRow(leftRow), joinConditions, "left")
  IN IF key \in DOMAIN lookupMap THEN lookupMap[key] ELSE <<>>

\* the right rows of the bucket that pass the double check
Accepted(matches, leftRow, rightDs, joinConditions) ==
  SelectSeq(matches,
            LAMBDA j : _compareJoinConditions(joinConditions, SomeRow(leftRow), SomeRow(rightDs[j])))

\* the rows one iteration of the loop over leftDataset pushes
LeftRowOutput(i, leftRow, matches, acc, rightDs, joinType, transform) ==
  IF Len(matches) > 0
    THEN [n \in 1..Len(acc) |->
            Joined(_mergeRows(SomeRow(leftRow), SomeRow(rightDs[acc[n]]), transform), i, acc[n])]
  ELSE IF joinType \in {"left", "full"}
    THEN << Joined(_mergeRows(SomeRow(leftRow), NullRow, transform), i, 0) >>
  ELSE <<>>

\* the join types that record accepted right rows in matchedRightRows
MarksMatchedRightOnly(joinType) == joinType = "right"
MarksMatched(joinType) == joinType \in {"right", "full"}

_performExactJoin(leftDs, rightDs, joinConditions, joinType, transform) ==
  LET lookupMap == LookupMap(rightDs, joinConditions)
      matches == [i \in 1..Len(leftDs) |-> LeftMatches(lookupMap, leftDs[i], joinConditions)]
      acc == [i \in 1..Len(leftDs) |-> Accepted(matches[i], leftDs[i], rightDs, joinConditions)]
      leftDriven ==
        Flatten([i \in 1..Len(leftDs) |->
                   LeftRowOutput(i, leftDs[i], matches[i], acc[i], rightDs, joinType, transform)])
      \* matchedRightRows after the loop over leftDataset
      matchedRightRows ==
        IF MarksMatched(joinType)
        THEN {acc[i][n] : <<i, n>> \in {<<i, n>> \in (1..Len(leftDs)) \X (1..Len(rightDs)) :
                                           n <= Len(acc[i])}}
        ELSE {}
      unmatched == SelectSeq(IdxSeq(Len(rightDs)), LAMBDA j : j \notin matchedRightRows)
  IN IF joinType \in {"right", "full"}
     THEN leftDriven \o
          [n \in 1..Len(unmatched) |->
             Joined(_mergeRows(NullRow, SomeRow(rightDs[unmatched[n]]), transform), 0, unmatched[n])]
     ELSE leftDriven

(***************************************************************************)
(* The query result store: values, codecs, the LRU cache.                  *)
(***************************************************************************)
\* a value that may be undefined or null
Undef == [k |-> "undefined", v |-> <<>>]
Null == [k |-> "null", v |-> <<>>]
Some(x) == [k |-> "value", v |-> <<x>>]
IsSome(m) == m.k = "value"
ValOf(m) == m.v[1]
\* m || d
OrElse(m, d) == IF IsSome(m) THEN ValOf(m) ELSE d
\* 'key' in obj
Present(m) == m.k # "undefined"

\* A row set is a sequence of rows; a row of a stored row set is abstracted
\* to a one-digit JSON number.
Digits == <<"0", "1", "2", "3", "4", "5", "6", "7", "8", "9">>
DigitText(n) == Digits[n + 1]
DigitValue(c) == (CHOOSE i \in 1..Len(Digits) : Digits[i] = c) - 1

\* JSON.stringify(rows): the characters of the JSON text
JsonStringify(rows) ==
  <<"[">> \o JoinWith([i \in 1..Len(rows) |-> <<DigitText(rows[i])>>], <<",">>) \o <<"]">>

\* the elements of a JSON array text between positions i and the closing bracket
RECURSIVE JsonElements(_, _)
JsonElements(text, i) ==
  IF text[i] = "]" THEN <<>>
  ELSE IF text[i] = "," THEN JsonElements(text, i + 1)
  ELSE <<DigitValue(text[i])>> \o JsonElements(text, i + 1)

\* JSON.parse(text)
JsonParse(text) == JsonElements(text, 2)

\* Buffer.from(string) and buffer.toString(): UTF-8 of the ASCII characters
CharCode(c) ==
  CASE c = "[" -> 91
    [] c = "]" -> 93
    [] c = "," -> 44
    [] OTHER -> 48 + DigitValue(c)
CodeChar(b) ==
  CASE b = 91 -> "["
    [] b = 93 -> "]"
    [] b = 44 -> ","
    [] OTHER -> DigitText(b - 48)
BufferFrom(text) == [i \in 1..Len(text) |-> CharCode(text[i])]
BufferToString(bytes) == [i \in 1..Len(bytes) |-> CodeChar(bytes[i])]

\* zlib.gzipSync / zlib.gunzipSync: a lossless byte codec, here the gzip
\* magic bytes followed by (run length, byte) pairs
RECURSIVE RunLengths(_)
RunLengths(bytes) ==
  IF bytes = <<>> THEN <<>>
  ELSE LET b == Head(bytes)
           run == CHOOSE n \in 1..Len(bytes) :
                    /\ \A i \in 1..n : bytes[i] = b
                    /\ (n < Len(bytes) => bytes[n + 1] # b)
       IN <<run, b>> \o RunLengths(SubSeq(bytes, run + 1, Len(bytes)))
RECURSIVE ExpandRuns(_)
ExpandRuns(pairs) ==
  IF pairs = <<>> THEN <<>>
  ELSE [i \in 1..pairs[1] |-> pairs[2]] \o ExpandRuns(SubSeq(pairs, 3, Len(pairs)))
GzipMagic == <<31, 139>>
GzipSync(bytes) == GzipMagic \o RunLengths(bytes)
GunzipSync(bytes) == ExpandRuns(SubSeq(bytes, Len(GzipMagic) + 1, Len(bytes)))

\* a JSONB column holds the value of the JSON text written to it
Jsonb(text) == JsonParse(text)

\* metadata objects: sets of <<key, value>> pairs, one pair per key
MetaMerge(a, b) == {kv \in a : \A kv2 \in b : kv2[1] # kv[1]} \cup b

\* this.resultsCache (lru-cache): max entries, least recently used first.
\* The age limit of an entry (resultsTTL, one hour) is longer than any run of
\* this model and is left out.
resultsCacheSize == 1
CacheHas(cache, id) == Has(cache, id)
CacheValue(cache, id) == Get(cache, id)
\* get(id) makes the entry the most recently used
CacheTouch(cache, id) ==
  IF Has(cache, id)
  THEN Append(SelectSeq(cache, LAMBDA e : e.key # id), [key |-> id, val |-> Get(cache, id)])
  ELSE cache
CacheSet(cache, id, entry) ==
  LET added == Append(SelectSeq(cache, LAMBDA e : e.key # id), [key |-> id, val |-> entry])
  IN IF Len(added) > resultsCacheSize THEN Tail(added) ELSE added
CacheDelete(cache, id) == SelectSeq(cache, LAMBDA e : e.key # id)

(***************************************************************************)
(* Records of the store.                                                   *)
(*   Args: resultData of storeResult / updateData of updateResultMetadata. *)
(*   TableRow: a row of the query_results table.                           *)
(*   Entry: a cache entry, which is also what getResultById returns.       *)
(***************************************************************************)
Ids == {"r1", "r2"}

Args(queryId, executionId, data, metadata, tags, ttlSeconds) ==
  [queryId |-> queryId, executionId |-> executionId, data |-> data,
   metadata |-> metadata, tags |-> tags, ttlSeconds |-> ttlSeconds]
NoArgs == Args("", "", Undef, Undef, Undef, Undef)

\* a size test that also takes a text of exactly the threshold as large
IsLargeFromThreshold(dataString, threshold) == Len(dataString) >= threshold
\* dataString.length > this.config.compressionThreshold
IsLarge(dataString, threshold) == Len(dataString) > threshold

\* the parameters of the INSERT of storeResult
InsertRow(id, resultData, createdAt, threshold, compress) ==
  LET ttl == IF IsSome(resultData.ttlSeconds) /\ ValOf(resultData.ttlSeconds) # 0
             THEN Some(createdAt + ValOf(resultData.ttlSeconds)) ELSE Null
      dataString == JsonStringify(OrElse(resultData.data, <<>>))
      isLarge == IsLarge(dataString, threshold)
      shouldCompress == isLarge /\ compress
      dataLarge == IF shouldCompress THEN GzipSync(BufferFrom(dataString))
                   ELSE BufferFrom(dataString)
  IN [id |-> id,
      query_id |-> resultData.queryId,
      execution_id |-> resultData.executionId,
      result_type |-> "single",
      row_count |-> IF IsSome(resultData.data) THEN Len(ValOf(resultData.data)) ELSE 0,
      storage_type |-> IF isLarge THEN "large" ELSE "json",
      data |-> IF isLarge THEN Null
               ELSE Some(Jsonb(JsonStringify(OrElse(resultData.data, <<>>)))),
      data_large |-> IF isLarge THEN Some(dataLarge) ELSE Null,
      is_compressed |-> shouldCompress,
      metadata |-> OrElse(resultData.metadata, {}),
      tags |-> Some(OrElse(resultData.tags, <<>>)),
      ttl |-> ttl,
      created_at |-> createdAt,
      updated_at |-> createdAt]

\* the entry storeResult caches
StoredEntry(id, resultData, createdAt) ==
  [id |-> id,
   queryId |-> resultData.queryId,
   executionId |-> resultData.executionId,
   resultType |-> "single",
   rowCount |-> IF IsSome(resultData.data) THEN Len(ValOf(resultData.data)) ELSE 0,
   data |-> resultData.data,
   metadata |-> resultData.metadata,
   tags |-> Undef,
   ttl |-> Undef,
   createdAt |-> createdAt,
   updatedAt |-> Undef]

\* parsedData of getResultById
ParsedData(row) ==
  IF row.storage_type = "json" THEN row.data
  ELSE IF row.storage_type = "large"
    THEN IF row.is_compressed
         THEN Some(JsonParse(BufferToString(GunzipSync(ValOf(row.data_large)))))
         ELSE Some(JsonParse(BufferToString(ValOf(row.data_large))))
  ELSE Undef

\* formattedResult of getResultById
FormattedResult(row) ==
  [id |-> row.id,
   queryId |-> row.query_id,
   executionId |-> row.execution_id,
   resultType |-> row.result_type,
   rowCount |-> row.row_count,
   data |-> ParsedData(row),
   metadata |-> Some(row.metadata),
   tags |-> row.tags,
   ttl |-> row.ttl,
   createdAt |-> row.created_at,
   updatedAt |-> Some(row.updated_at)]

\* the SET list of the UPDATE of updateResultMetadata; a column that is not
\* set is Undef
UpdatePatch(currentResult, updateData, at) ==
  [tags |-> IF Present(updateData.tags) THEN Some(updateData.tags) ELSE Undef,
   ttl |-> IF Present(updateData.ttlSeconds)
           THEN Some(IF IsSome(updateData.ttlSeconds) /\ ValOf(updateData.ttlSeconds) # 0
                     THEN Some(at + ValOf(updateData.ttlSeconds)) ELSE Null)
           ELSE Undef,
   metadata |-> IF Present(updateData.metadata)
                THEN Some(MetaMerge(OrElse(currentResult.metadata, {}),
                                    OrElse(updateData.metadata, {})))
                ELSE Undef,
   updated_at |-> at]
NoPatch == [tags |-> Undef, ttl |-> Undef, metadata |-> Undef, updated_at |-> 0]

\* an UPDATE that also writes row_count
UpdatedWithCount(row, patch) ==
  [row EXCEPT !.tags = IF IsSome(patch.tags) THEN ValOf(patch.tags) ELSE @,
              !.ttl = IF IsSome(patch.ttl) THEN ValOf(patch.ttl) ELSE @,
              !.metadata = IF IsSome(patch.metadata) THEN ValOf(patch.metadata) ELSE @,
              !.row_count = 0,
              !.updated_at = patch.updated_at]
\* the row after the UPDATE
Updated(row, patch) ==
  [row EXCEPT !.tags = IF IsSome(patch.tags) THEN ValOf(patch.tags) ELSE @,
              !.ttl = IF IsSome(patch.ttl) THEN ValOf(patch.ttl) ELSE @,
              !.metadata = IF IsSome(patch.metadata) THEN ValOf(patch.metadata) ELSE @,
              !.updated_at = patch.updated_at]

\* the entry updateResultMetadata writes over the cached one
SyncedEntry(cachedResult, updatedResult) ==
  [cachedResult EXCEPT !.metadata = Some(updatedResult.metadata),
                       !.tags = updatedResult.tags,
                       !.ttl = updatedResult.ttl,
                       !.updatedAt = Some(updatedResult.updated_at)]

\* a DELETE that takes the rows whose ttl is the current time as well
ExpiredOrDue(row, at) == IsSome(row.ttl) /\ ValOf(row.ttl) <= at
\* WHERE ttl IS NOT NULL AND ttl < $1
Expired(row, at) == IsSome(row.ttl) /\ ValOf(row.ttl) < at

\* a SELECT that leaves out the rows whose ttl has passed
SelectUnexpiredById(tbl, id, at) ==
  IF tbl[id] = <<>> \/ Expired(tbl[id][1], at) THEN Null ELSE Some(tbl[id][1])
\* SELECT ... WHERE id = $1
SelectById(tbl, id, at) == IF tbl[id] = <<>> THEN Null ELSE Some(tbl[id][1])

\* this.resultsCache.get(id) of getResultById
CacheLookup(cache, id, at) == IF CacheHas(cache, id) THEN Some(CacheValue(cache, id)) ELSE Undef

\* a listing entry: the columns the listings select, without the data
ListingEntry(row) ==
  [id |-> row.id,
   queryId |-> row.query_id,
   executionId |-> row.execution_id,
   resultType |-> row.result_type,
   rowCount |-> row.row_count,
   metadata |-> row.metadata,
   tags |-> row.tags,
   ttl |-> row.ttl,
   createdAt |-> row.created_at]

\* the WHERE clause of a listing: query_id = $1, execution_id = $1,
\* tags @> $1 (matchAll) or tags && $1
Range(seq) == {seq[i] : i \in 1..Len(seq)}
Filter(by, key, tags, matchAll) == [by |-> by, key |-> key, tags |-> tags, matchAll |-> matchAll]
\* a WHERE clause that uses && whatever matchAll is
MatchesAny(row, f) ==
  CASE f.by = "queryId" -> row.query_id = f.key
    [] f.by = "executionId" -> row.execution_id = f.key
    [] OTHER -> /\ IsSome(row.tags)
                /\ Range(f.tags) \cap Range(ValOf(row.tags)) # {}
Matches(row, f) ==
  CASE f.by = "queryId" -> row.query_id = f.key
    [] f.by = "executionId" -> row.execution_id = f.key
    [] OTHER -> /\ IsSome(row.tags)
                /\ IF f.matchAll THEN Range(f.tags) \subseteq Range(ValOf(row.tags))
                   ELSE Range(f.tags) \cap Range(ValOf(row.tags)) # {}

\* the ids of the rows a listing selects
Selected(tbl, f) == {id \in Ids : tbl[id] # <<>> /\ Matches(tbl[id][1], f)}

\* ORDER BY created_at DESC: every order of the selected rows in which
\* created_at never increases
Listings(tbl, f) ==
  LET sel == Selected(tbl, f)
      n == Cardinality(sel)
  IN { [i \in 1..n |-> ListingEntry(tbl[order[i]][1])] :
         order \in { o \in [1..n -> sel] :
                       /\ \A i, j \in 1..n : i # j => o[i] # o[j]
                       /\ \A i, j \in 1..n :
                            i < j => tbl[o[i]][1].created_at >= tbl[o[j]][1].created_at } }

(***************************************************************************)
(* The state of the store.  A call of a method runs in segments separated  *)
(* by its awaits; between two segments of one call the segments of other   *)
(* calls and the statements of the database may run.                       *)
(***************************************************************************)
MaxCalls == 2
MaxOps == 3
MaxTime == 2
ThresholdChars == 4

Calls == 1..MaxCalls

NoOut == [status |-> "none", value |-> Undef, fromCache |-> FALSE]
\* what a call observed, recorded for the properties below
NoObs == [stored |-> Undef, gone |-> FALSE, cached |-> FALSE, existed |-> FALSE,
          readAt |-> 0, expect |-> {}, fresh |-> {}, due |-> {}, reused |-> {}]
IdleCall ==
  [op |-> "none", pc |-> "idle", id |-> "", arg |-> NoArgs, row |-> Null,
   patch |-> NoPatch, removed |-> {}, list |-> <<>>, out |-> NoOut, obs |-> NoObs]

\* per id: inserted: a row with the id was inserted at some time;
\* live: the resultData of the row now in the table, unless delete or cleanup
\* removed it; by: the call that inserted it; returned: that storeResult has
\* returned;
\* expiry: createdAt + t of the live result while it was not updated;
\* deleted / swept: a deleteResult / a cleanup due for the id has returned and
\* no storeResult used the id since; updated: an updateResultMetadata has
\* returned, no update or storeResult of the id was in flight then, and no
\* other call changed the id since
NoHist ==
  [inserted |-> FALSE, live |-> Undef, by |-> 0, returned |-> FALSE, expiry |-> Undef,
   deleted |-> FALSE, swept |-> FALSE, updated |-> FALSE]

\* the store after the constructor and initialize()
StoreConstructed ==
  /\ now = 0
  /\ table = [id \in Ids |-> <<>>]
  /\ resultsCache = <<>>
  /\ compressionThreshold = ThresholdChars
  /\ calls = [p \in Calls |-> IdleCall]
  /\ hist = [id \in Ids |-> NoHist]

\* fuzzyOptions.enabled selects _performFuzzyJoin; the strategies of this
\* model leave fuzzy matching disabled
_performJoin(leftDs, rightDs, joinConditions, joinType, transform) ==
  _performExactJoin(leftDs, rightDs, joinConditions, joinType, transform)

(***************************************************************************)
(* joinQueries, from the point where both datasets were fetched.           *)
(***************************************************************************)
JoinTypes == {"inner", "left", "right", "full"}
StrategyNames == {"byKey", "byKeyAlt"}
NoName == "null"
\* the name of a strategy without a name: undefined, which as a key of
\* joinResults is the text "undefined"
Unnamed == "undefined"
\* a name that is truthy
IsTruthyName(name) == name \notin {NoName, Unnamed}

One == <<"1">>
KeyValues ==
  { JsNull, JsNumber(One), JsStr(One), JsStr(NULLText), JsDate(<<"0">>),
    JsArray(<<Prim("number", One)>>),
    JsObject(<<"a">>, <<Prim("number", One)>>) }
\* rows with the column k, and rows without it
Rows == {<<>>} \cup {<<[key |-> "k", val |-> v]>> : v \in KeyValues}
NarrowRows == {<<[key |-> "k", val |-> v]>> : v \in {JsNumber(One), JsStr(One)}}

Strategy(name, type) == [name |-> name, conditions |-> <<Cond("k", "k")>>, type |-> type]

\* what a join call returns
\* nothing returned yet; error: the kind of the message and the number in it
NoOutcome == [success |-> FALSE, error |-> [kind |-> "none", index |-> 0]]
Success == [success |-> TRUE, error |-> [kind |-> "", index |-> 0]]
Failure(kind, index) == [success |-> FALSE, error |-> [kind |-> kind, index |-> index]]

\* no execution is recorded
NoExec == [status |-> "none", main |-> "done", success |-> FALSE, cancel |-> "idle",
           callbacks |-> <<>>]

\* the store was initialized once, with pool 1
Initialized == [initialized |-> TRUE, pool |-> 1, created |-> 1, callers |-> <<>>]

\* no statistics are returned, no helper is called, the store is initialized
MoreUnused ==
  /\ stats = <<>>
  /\ evaluated = <<>>
  /\ init = Initialized

\* nothing else is called
ExtraUnused ==
  /\ signatures = <<>>
  /\ wrapped = <<>>
  /\ exec = NoExec
  /\ fuzzy = <<>>
  /\ MoreUnused

\* no result tracking is asked for
TrackUnused ==
  /\ ExtraUnused
  /\ trackingOptions = <<>>
  /\ currentResults = <<>>
  /\ executions = <<>>
  /\ previousExecutions = <<>>
  /\ markedResults = <<>>
  /\ tpc = "done"

\* no configuration was given and no source is fetched
CallUnused ==
  /\ TrackUnused
  /\ joinConfig = <<>>
  /\ joinSpecs = <<>>
  /\ fetches = <<>>
  /\ multiResult = <<>>
  /\ steps = <<>>
  /\ outcome = NoOutcome

JoinIdle ==
  /\ CallUnused
  /\ jpc = "loop"
  /\ jidx = 1
  /\ joinResults = <<>>
  /\ bestJoinName = NoName
  /\ bestJoinCount = -1
  /\ bestJoin = [name |-> NoName, count |-> -1, data |-> <<>>]

\* the store is constructed and no call of it is started
StoreUnused ==
  /\ StoreConstructed
  /\ compressionEnabled = TRUE
  /\ opsLeft = 0

\* one strategy, any two datasets of at most MaxRows rows together
InitJoin ==
  /\ leftDataset \in SeqsUpTo(Rows, MaxRows)
  /\ rightDataset \in SeqsUpTo(Rows, MaxRows - Len(leftDataset))
  /\ \E type \in JoinTypes : joinStrategies = <<Strategy("byKey", type)>>
  /\ JoinIdle
  /\ StoreUnused

\* several strategies over the same two datasets
InitBest ==
  /\ leftDataset \in SeqsUpTo(NarrowRows, MaxBestRows)
  /\ rightDataset \in SeqsUpTo(NarrowRows, MaxBestRows - Len(leftDataset))
  /\ joinStrategies \in
       {ss \in SeqsUpTo({Strategy(n, t) : n \in StrategyNames, t \in JoinTypes}, MaxStrategies) :
          ss # <<>>}
  /\ JoinIdle
  /\ StoreUnused

\* the test that updates the best join
IsBetterOrEqual(count, best) == count >= best
IsBetter(count, best) == count > best

\* one iteration of the loop over joinStrategies
RunStrategy ==
  /\ jpc = "loop"
  /\ jidx <= Len(joinStrategies)
  /\ LET strategy == joinStrategies[jidx]
         joinedRows == _performJoin(leftDataset, rightDataset, strategy.conditions,
                                    strategy.type, "none")
     IN /\ joinResults' = Put(joinResults, strategy.name,
                              [count |-> Len(joinedRows), data |-> joinedRows])
        /\ IF IsBetter(Len(joinedRows), bestJoinCount)
           THEN bestJoinName' = strategy.name /\ bestJoinCount' = Len(joinedRows)
           ELSE UNCHANGED <<bestJoinName, bestJoinCount>>
  /\ jidx' = jidx + 1
  /\ steps' = Append(steps, jidx)
  /\ UNCHANGED <<leftDataset, rightDataset, joinStrategies, jpc, bestJoin>>
  /\ UNCHANGED <<joinConfig, joinSpecs, fetches, multiResult, outcome>>
  /\ UNCHANGED <<storeVars, trackVars>>

\* the return after the loop
JoinReturn ==
  /\ jpc = "loop"
  /\ jidx > Len(joinStrategies)
  /\ bestJoin' = [name |-> bestJoinName, count |-> bestJoinCount,
                  data |-> IF IsTruthyName(bestJoinName)
                           THEN Get(joinResults, bestJoinName).data ELSE <<>>]
  /\ jpc' = "done"
  /\ outcome' = Success
  /\ UNCHANGED <<leftDataset, rightDataset, joinStrategies, jidx, joinResults,
                 bestJoinName, bestJoinCount>>
  /\ UNCHANGED callVars
  /\ UNCHANGED <<storeVars, trackVars>>

NextJoin == RunStrategy \/ JoinReturn

SpecJoin == InitJoin /\ [][NextJoin]_vars
SpecBest == InitBest /\ [][NextJoin]_vars

(***************************************************************************)
(* The methods of the store.  The database runs a statement at some time   *)
(* after the call issued it; the call continues at some time after that.   *)
(***************************************************************************)
JoinUnused ==
  /\ CallUnused
  /\ leftDataset = <<>>
  /\ rightDataset = <<>>
  /\ joinStrategies = <<>>
  /\ jpc = "done"
  /\ jidx = 1
  /\ joinResults = <<>>
  /\ bestJoinName = NoName
  /\ bestJoinCount = -1
  /\ bestJoin = [name |-> NoName, count |-> -1, data |-> <<>>]

\* a call that returned or threw
Done(c, status, value, fromCache) ==
  [c EXCEPT !.pc = "idle", !.arg = NoArgs, !.row = Null, !.patch = NoPatch,
            !.removed = {},
            !.out = [status |-> status, value |-> value, fromCache |-> fromCache]]

\* a call may start while calls are left; it takes the free slot of least
\* index
CanStart(p) ==
  /\ opsLeft > 0
  /\ calls[p].pc = "idle"
  /\ \A q \in Calls : q < p => calls[q].pc # "idle"

InFlight(ops, id) ==
  \E q \in Calls : calls[q].pc # "idle" /\ calls[q].op \in ops /\ calls[q].id = id

\* a storeResult that uses id starts: deletes and cleanups in flight overlap
\* it, and what earlier reads of id observed is about an earlier result
NoteReuse(c, id) ==
  IF c.pc # "idle" /\ c.op \in {"delete", "cleanup"}
  THEN [c EXCEPT !.obs.reused = @ \cup {id}]
  ELSE IF c.id = id THEN [c EXCEPT !.obs.gone = FALSE, !.obs.stored = Undef]
  ELSE c

\* the rows of ids are deleted or updated: reads in flight no longer vouch
\* for them
NoteChange(c, ids) == [c EXCEPT !.obs.fresh = @ \ ids]

Fresh(id) == IsSome(hist[id].expiry) /\ now < ValOf(hist[id].expiry)

StoreBegin(p, id, resultData) ==
  /\ CanStart(p)
  /\ opsLeft' = opsLeft - 1
  /\ calls' = [q \in Calls |->
                 IF q = p
                 THEN [IdleCall EXCEPT
                         !.op = "store", !.pc = "insert", !.id = id, !.arg = resultData,
                         !.row = Some(InsertRow(id, resultData, now, compressionThreshold,
                                                compressionEnabled))]
                 ELSE NoteReuse(calls[q], id)]
  /\ hist' = [hist EXCEPT ![id].deleted = FALSE, ![id].swept = FALSE, ![id].updated = FALSE]
  /\ UNCHANGED <<now, table, resultsCache, compressionEnabled, compressionThreshold>>

\* storeResult called on its own
StoreStart(p, id, resultData) ==
  /\ StoreBegin(p, id, resultData)
  /\ UNCHANGED joinVars

\* an INSERT that replaces a row of the same id instead of failing
DbUpsert(p) ==
  LET c == calls[p] IN
  /\ c.op = "store" /\ c.pc = "insert"
  /\ table' = [table EXCEPT ![c.id] = <<ValOf(c.row)>>]
  /\ calls' = [calls EXCEPT ![p].pc = "cache"]
  /\ hist' = [hist EXCEPT ![c.id].inserted = TRUE,
                          ![c.id].live = Some(c.arg),
                          ![c.id].by = p,
                          ![c.id].returned = FALSE]
  /\ UNCHANGED <<now, resultsCache, compressionEnabled, compressionThreshold, opsLeft>>
  /\ UNCHANGED joinVars
\* the INSERT succeeds
DbInsert(p) ==
  LET c == calls[p] IN
  /\ c.op = "store" /\ c.pc = "insert"
  /\ table[c.id] = <<>>
  /\ table' = [table EXCEPT ![c.id] = <<ValOf(c.row)>>]
  /\ calls' = [calls EXCEPT ![p].pc = "cache"]
  /\ hist' = [hist EXCEPT ![c.id].inserted = TRUE,
                          ![c.id].live = Some(c.arg),
                          ![c.id].by = p,
                          ![c.id].returned = FALSE,
                          ![c.id].expiry =
                             IF IsSome(c.arg.ttlSeconds) /\ ValOf(c.arg.ttlSeconds) > 0
                             THEN Some(ValOf(c.row).created_at + ValOf(c.arg.ttlSeconds))
                             ELSE Undef]
  /\ UNCHANGED <<now, resultsCache, compressionEnabled, compressionThreshold, opsLeft>>
  /\ UNCHANGED joinVars

\* a storeResult that caches its entry although the INSERT failed
DbInsertFailsCaching(p) ==
  LET c == calls[p] IN
  /\ c.op = "store" /\ c.pc = "insert"
  /\ table[c.id] # <<>>
  /\ resultsCache' = CacheSet(resultsCache, c.id,
                              StoredEntry(c.id, c.arg, ValOf(c.row).created_at))
  /\ calls' = [calls EXCEPT ![p] = Done(c, "error", Undef, FALSE)]
  /\ UNCHANGED <<now, table, compressionEnabled, compressionThreshold, opsLeft, hist>>
  /\ UNCHANGED joinVars
\* the INSERT violates the primary key: storeResult throws
DbInsertFails(p) ==
  LET c == calls[p] IN
  /\ c.op = "store" /\ c.pc = "insert"
  /\ table[c.id] # <<>>
  /\ calls' = [calls EXCEPT ![p] = Done(c, "error", Undef, FALSE)]
  /\ UNCHANGED <<now, table, resultsCache, compressionEnabled, compressionThreshold,
                 opsLeft, hist>>
  /\ UNCHANGED joinVars

\* after the INSERT: resultsCache.set and return
StoreCache(p) ==
  LET c == calls[p] IN
  /\ c.op = "store" /\ c.pc = "cache"
  /\ resultsCache' = CacheSet(resultsCache, c.id,
                              StoredEntry(c.id, c.arg, ValOf(c.row).created_at))
  /\ calls' = [calls EXCEPT ![p] = Done(c, "ok", Undef, FALSE)]
  /\ hist' = [hist EXCEPT ![c.id].returned = @ \/ (IsSome(hist[c.id].live) /\ hist[c.id].by = p),
                          ![c.id].by = IF @ = p THEN 0 ELSE @]
  /\ UNCHANGED <<now, table, compressionEnabled, compressionThreshold, opsLeft>>
  /\ UNCHANGED joinVars

\* what a getResultById notes when it starts
GetObs(id) ==
  [NoObs EXCEPT
     !.stored = IF hist[id].returned /\ IsSome(hist[id].live)
                THEN ValOf(hist[id].live).data ELSE Undef,
     !.gone = hist[id].deleted \/ hist[id].swept,
     !.cached = CacheHas(resultsCache, id),
     !.fresh = IF hist[id].returned /\ Fresh(id) THEN {id} ELSE {},
     !.readAt = now]

\* getResultById, served from the cache
GetHit(p, id) ==
  LET cachedResult == CacheLookup(resultsCache, id, now) IN
  /\ CanStart(p)
  /\ IsSome(cachedResult)
  /\ opsLeft' = opsLeft - 1
  /\ resultsCache' = CacheTouch(resultsCache, id)
  /\ calls' = [calls EXCEPT ![p] =
                 [IdleCall EXCEPT !.op = "get", !.id = id, !.obs = GetObs(id),
                                  !.out = [status |-> "ok", value |-> cachedResult,
                                           fromCache |-> TRUE]]]
  /\ UNCHANGED <<now, table, compressionEnabled, compressionThreshold, hist>>
  /\ UNCHANGED joinVars

\* getResultById misses the cache and issues the SELECT
GetMiss(p, id) ==
  /\ CanStart(p)
  /\ ~IsSome(CacheLookup(resultsCache, id, now))
  /\ opsLeft' = opsLeft - 1
  /\ calls' = [calls EXCEPT ![p] =
                 [IdleCall EXCEPT !.op = "get", !.pc = "select", !.id = id,
                                  !.obs = GetObs(id)]]
  /\ UNCHANGED <<now, table, resultsCache, compressionEnabled, compressionThreshold, hist>>
  /\ UNCHANGED joinVars

\* the SELECT of getResultById, also when updateResultMetadata called it
DbSelect(p) ==
  LET c == calls[p] IN
  /\ c.pc = "select"
  /\ calls' = [calls EXCEPT ![p].pc = "fill",
                            ![p].row = SelectById(table, c.id, now),
                            ![p].obs.existed = (table[c.id] # <<>>),
                            ![p].obs.readAt = now]
  /\ UNCHANGED <<now, table, resultsCache, compressionEnabled, compressionThreshold,
                 opsLeft, hist>>
  /\ UNCHANGED joinVars

\* no row: getResultById throws not-found
GetNotFound(p) ==
  LET c == calls[p] IN
  /\ c.op = "get" /\ c.pc = "fill"
  /\ ~IsSome(c.row)
  /\ calls' = [calls EXCEPT ![p] = Done(c, "notfound", Undef, FALSE)]
  /\ UNCHANGED <<now, table, resultsCache, compressionEnabled, compressionThreshold,
                 opsLeft, hist>>
  /\ UNCHANGED joinVars

\* a row: getResultById formats it, caches it and returns it
GetFill(p) ==
  LET c == calls[p] IN
  /\ c.op = "get" /\ c.pc = "fill"
  /\ IsSome(c.row)
  /\ resultsCache' = CacheSet(resultsCache, c.id, FormattedResult(ValOf(c.row)))
  /\ calls' = [calls EXCEPT ![p] = Done(c, "ok", Some(FormattedResult(ValOf(c.row))), FALSE)]
  /\ UNCHANGED <<now, table, compressionEnabled, compressionThreshold, opsLeft, hist>>
  /\ UNCHANGED joinVars

\* updateResultMetadata: getResultById is served from the cache; the UPDATE
\* is built and issued
UpdHit(p, id, updateData) ==
  LET cachedResult == CacheLookup(resultsCache, id, now) IN
  /\ CanStart(p)
  /\ IsSome(cachedResult)
  /\ opsLeft' = opsLeft - 1
  /\ resultsCache' = CacheTouch(resultsCache, id)
  /\ calls' = [calls EXCEPT ![p] =
                 [IdleCall EXCEPT !.op = "update", !.pc = "update", !.id = id,
                                  !.arg = updateData,
                                  !.patch = UpdatePatch(ValOf(cachedResult), updateData, now)]]
  /\ hist' = [hist EXCEPT ![id].updated = FALSE]
  /\ UNCHANGED <<now, table, compressionEnabled, compressionThreshold>>
  /\ UNCHANGED joinVars

\* updateResultMetadata: getResultById misses the cache and issues the SELECT
UpdMiss(p, id, updateData) ==
  /\ CanStart(p)
  /\ ~IsSome(CacheLookup(resultsCache, id, now))
  /\ opsLeft' = opsLeft - 1
  /\ calls' = [calls EXCEPT ![p] =
                 [IdleCall EXCEPT !.op = "update", !.pc = "select", !.id = id,
                                  !.arg = updateData]]
  /\ hist' = [hist EXCEPT ![id].updated = FALSE]
  /\ UNCHANGED <<now, table, resultsCache, compressionEnabled, compressionThreshold>>
  /\ UNCHANGED joinVars

\* no row: the getResultById of updateResultMetadata throws not-found
UpdNotFound(p) ==
  LET c == calls[p] IN
  /\ c.op = "update" /\ c.pc = "fill"
  /\ ~IsSome(c.row)
  /\ calls' = [calls EXCEPT ![p] = Done(c, "notfound", Undef, FALSE)]
  /\ UNCHANGED <<now, table, resultsCache, compressionEnabled, compressionThreshold,
                 opsLeft, hist>>
  /\ UNCHANGED joinVars

\* a row: getResultById caches it; the UPDATE is built and issued
UpdFill(p) ==
  LET c == calls[p]
      currentResult == FormattedResult(ValOf(c.row))
  IN
  /\ c.op = "update" /\ c.pc = "fill"
  /\ IsSome(c.row)
  /\ resultsCache' = CacheSet(resultsCache, c.id, currentResult)
  /\ calls' = [calls EXCEPT ![p].pc = "update",
                            ![p].row = Null,
                            ![p].patch = UpdatePatch(currentResult, c.arg, now)]
  /\ UNCHANGED <<now, table, compressionEnabled, compressionThreshold, opsLeft, hist>>
  /\ UNCHANGED joinVars

\* UPDATE ... WHERE id = $n RETURNING ...
DbUpdate(p) ==
  LET c == calls[p] IN
  /\ c.op = "update" /\ c.pc = "update"
  /\ IF table[c.id] = <<>>
     THEN /\ calls' = [calls EXCEPT ![p].pc = "sync", ![p].row = Null]
          /\ UNCHANGED <<table, hist>>
     ELSE LET updatedResult == Updated(table[c.id][1], c.patch) IN
          /\ table' = [table EXCEPT ![c.id] = <<updatedResult>>]
          /\ calls' = [q \in Calls |->
                         IF q = p
                         THEN [c EXCEPT !.pc = "sync", !.row = Some(updatedResult)]
                         ELSE NoteChange(calls[q], {c.id})]
          /\ hist' = [hist EXCEPT ![c.id].expiry = Undef]
  /\ UNCHANGED <<now, resultsCache, compressionEnabled, compressionThreshold, opsLeft>>
  /\ UNCHANGED joinVars

\* after the UPDATE: the cached entry, if any, takes the columns of the row
UpdSync(p) ==
  LET c == calls[p] IN
  /\ c.op = "update" /\ c.pc = "sync"
  /\ IsSome(c.row)
  /\ resultsCache' =
       IF CacheHas(resultsCache, c.id)
       THEN CacheSet(resultsCache, c.id,
                     SyncedEntry(CacheValue(resultsCache, c.id), ValOf(c.row)))
       ELSE resultsCache
  /\ calls' = [calls EXCEPT ![p] = Done(c, "ok", Undef, FALSE)]
  /\ hist' = [hist EXCEPT ![c.id].updated =
                ~\E q \in Calls \ {p} :
                    /\ calls[q].pc # "idle"
                    /\ calls[q].op \in {"update", "store"}
                    /\ calls[q].id = c.id]
  /\ UNCHANGED <<now, table, compressionEnabled, compressionThreshold, opsLeft>>
  /\ UNCHANGED joinVars

\* the UPDATE returned no row: reading a column of result.rows[0] throws,
\* after resultsCache.get
UpdThrows(p) ==
  LET c == calls[p] IN
  /\ c.op = "update" /\ c.pc = "sync"
  /\ ~IsSome(c.row)
  /\ resultsCache' = CacheTouch(resultsCache, c.id)
  /\ calls' = [calls EXCEPT ![p] = Done(c, "error", Undef, FALSE)]
  /\ UNCHANGED <<now, table, compressionEnabled, compressionThreshold, opsLeft, hist>>
  /\ UNCHANGED joinVars

\* deleteResult issues the DELETE and the database runs it
Delete(p, id) ==
  /\ CanStart(p)
  /\ opsLeft' = opsLeft - 1
  /\ table' = [table EXCEPT ![id] = <<>>]
  /\ calls' = [q \in Calls |->
                 IF q = p
                 THEN [IdleCall EXCEPT
                         !.op = "delete", !.pc = "evict", !.id = id,
                         !.obs.reused = IF InFlight({"store"}, id) THEN {id} ELSE {}]
                 ELSE NoteChange(calls[q], {id})]
  /\ hist' = [hist EXCEPT ![id].live = Undef, ![id].by = 0, ![id].returned = FALSE,
                          ![id].expiry = Undef, ![id].updated = FALSE]
  /\ UNCHANGED <<now, resultsCache, compressionEnabled, compressionThreshold>>
  /\ UNCHANGED joinVars

\* after the DELETE: resultsCache.delete and return
DelEvict(p) ==
  LET c == calls[p] IN
  /\ c.op = "delete" /\ c.pc = "evict"
  /\ resultsCache' = CacheDelete(resultsCache, c.id)
  /\ calls' = [calls EXCEPT ![p] = Done(c, "ok", Undef, FALSE)]
  /\ hist' = [hist EXCEPT ![c.id].deleted = (c.id \notin c.obs.reused)]
  /\ UNCHANGED <<now, table, compressionEnabled, compressionThreshold, opsLeft>>
  /\ UNCHANGED joinVars

\* cleanupExpiredResults reads the clock, issues the DELETE and the database
\* runs it
Cleanup(p) ==
  LET removed == {id \in Ids : table[id] # <<>> /\ Expired(table[id][1], now)} IN
  /\ CanStart(p)
  /\ opsLeft' = opsLeft - 1
  /\ table' = [id \in Ids |-> IF id \in removed THEN <<>> ELSE table[id]]
  /\ calls' = [q \in Calls |->
                 IF q = p
                 THEN [IdleCall EXCEPT
                         !.op = "cleanup", !.pc = "evict", !.removed = removed,
                         !.obs.due = {id \in Ids : /\ IsSome(hist[id].expiry)
                                                   /\ ValOf(hist[id].expiry) < now},
                         !.obs.reused = {id \in Ids : InFlight({"store"}, id)}]
                 ELSE NoteChange(calls[q], removed)]
  /\ hist' = [id \in Ids |->
                IF id \in removed
                THEN [hist[id] EXCEPT !.live = Undef, !.by = 0, !.returned = FALSE,
                                      !.expiry = Undef, !.updated = FALSE]
                ELSE hist[id]]
  /\ UNCHANGED <<now, resultsCache, compressionEnabled, compressionThreshold>>
  /\ UNCHANGED joinVars

\* after the DELETE: resultsCache.delete of every deleted id, and return
CleanEvict(p) ==
  LET c == calls[p] IN
  /\ c.op = "cleanup" /\ c.pc = "evict"
  /\ resultsCache' = SelectSeq(resultsCache, LAMBDA e : e.key \notin c.removed)
  /\ calls' = [calls EXCEPT ![p] = Done(c, "ok", Some(Cardinality(c.removed)), FALSE)]
  /\ hist' = [id \in Ids |->
                IF id \in c.obs.due \ c.obs.reused
                THEN [hist[id] EXCEPT !.swept = TRUE] ELSE hist[id]]
  /\ UNCHANGED <<now, table, compressionEnabled, compressionThreshold, opsLeft>>
  /\ UNCHANGED joinVars

\* the live results a listing has to show, by what was stored
LiveMatches(id, f) ==
  /\ IsSome(hist[id].live)
  /\ CASE f.by = "queryId" -> ValOf(hist[id].live).queryId = f.key
       [] f.by = "executionId" -> ValOf(hist[id].live).executionId = f.key
       [] OTHER -> table[id] # <<>> /\ Matches(table[id][1], f)

\* getResultsByQueryId, getResultsByExecutionId, getResultsByTags: the
\* SELECT and the rows it returns
List(p, f) ==
  /\ CanStart(p)
  /\ opsLeft' = opsLeft - 1
  /\ \E rows \in Listings(table, f) :
       calls' = [calls EXCEPT ![p] =
                   [IdleCall EXCEPT
                      !.op = "list", !.list = rows,
                      !.out = [status |-> "ok", value |-> Undef, fromCache |-> FALSE],
                      !.obs.expect = {id \in Ids : LiveMatches(id, f)},
                      !.obs.fresh = {id \in Ids : LiveMatches(id, f) /\ hist[id].returned
                                                   /\ Fresh(id)},
                      !.obs.readAt = now]]
  /\ UNCHANGED <<now, table, resultsCache, compressionEnabled, compressionThreshold, hist>>
  /\ UNCHANGED joinVars

\* time passes
Tick ==
  /\ now < MaxTime
  /\ now' = now + 1
  /\ UNCHANGED <<table, resultsCache, compressionEnabled, compressionThreshold, calls,
                 opsLeft, hist>>
  /\ UNCHANGED joinVars

(***************************************************************************)
(* The store under concurrent calls: up to MaxCalls calls in flight,       *)
(* MaxOps calls in all, the clock running up to MaxTime.                   *)
(***************************************************************************)
\* row sets below and above the compression threshold, with and without ttl
ResultDatas ==
  {Args("q1", "e1", Some(data), Undef, Undef, ttlSeconds) :
     data \in {<<1, 2>>}, ttlSeconds \in {Undef, Some(1)}}
UpdateDatas ==
  {Args("", "", Undef, Some({<<"a", 1>>}), Some(<<"t1">>), Undef),
   Args("", "", Undef, Undef, Undef, Some(2))}
Filters == {Filter("queryId", "q1", <<>>, TRUE), Filter("tags", "", <<"t1">>, TRUE)}

InitStore ==
  /\ StoreConstructed
  /\ compressionEnabled \in BOOLEAN
  /\ opsLeft = MaxOps
  /\ JoinUnused

NextStore ==
  \/ Tick
  \/ \E p \in Calls, id \in Ids, resultData \in ResultDatas : StoreStart(p, id, resultData)
  \/ \E p \in Calls : DbInsert(p)
  \/ \E p \in Calls : DbInsertFails(p)
  \/ \E p \in Calls : StoreCache(p)
  \/ \E p \in Calls, id \in Ids : GetHit(p, id)
  \/ \E p \in Calls, id \in Ids : GetMiss(p, id)
  \/ \E p \in Calls : DbSelect(p)
  \/ \E p \in Calls : GetNotFound(p)
  \/ \E p \in Calls : GetFill(p)
  \/ \E p \in Calls, id \in Ids, updateData \in UpdateDatas : UpdHit(p, id, updateData)
  \/ \E p \in Calls, id \in Ids, updateData \in UpdateDatas : UpdMiss(p, id, updateData)
  \/ \E p \in Calls : UpdNotFound(p)
  \/ \E p \in Calls : UpdFill(p)
  \/ \E p \in Calls : DbUpdate(p)
  \/ \E p \in Calls : UpdSync(p)
  \/ \E p \in Calls : UpdThrows(p)
  \/ \E p \in Calls, id \in Ids : Delete(p, id)
  \/ \E p \in Calls : DelEvict(p)
  \/ \E p \in Calls : Cleanup(p)
  \/ \E p \in Calls : CleanEvict(p)
  \/ \E p \in Calls, f \in Filters : List(p, f)

SpecStore == InitStore /\ [][NextStore]_vars

(***************************************************************************)
(* One id stored, fetched, deleted and stored again with other rows.       *)
(***************************************************************************)
MaxReuseOps == 5

ReuseDatas == {Args("q1", "e1", Some(data), Undef, Undef, Undef) : data \in {<<1>>, <<1, 2>>}}

InitReuse ==
  /\ StoreConstructed
  /\ compressionEnabled \in BOOLEAN
  /\ opsLeft = MaxReuseOps
  /\ JoinUnused

NextReuse ==
  \/ \E p \in Calls, resultData \in ReuseDatas : StoreStart(p, "r1", resultData)
  \/ \E p \in Calls : DbInsert(p)
  \/ \E p \in Calls : DbInsertFails(p)
  \/ \E p \in Calls : StoreCache(p)
  \/ \E p \in Calls : GetHit(p, "r1")
  \/ \E p \in Calls : GetMiss(p, "r1")
  \/ \E p \in Calls : DbSelect(p)
  \/ \E p \in Calls : GetNotFound(p)
  \/ \E p \in Calls : GetFill(p)
  \/ \E p \in Calls : Delete(p, "r1")
  \/ \E p \in Calls : DelEvict(p)

SpecReuse == InitReuse /\ [][NextReuse]_vars

(***************************************************************************)
(* The store when every storeResult gets its id from uuidv4(): no id is    *)
(* used twice and no result is deleted by hand.                            *)
(***************************************************************************)
\* row sets of two lengths, expiring after one second
FreshDatas ==
  {Args("q1", "e1", Some(data), Undef, Undef, Some(1)) : data \in {<<1>>, <<1, 2>>}}

\* storeResult with resultData.id unset: uuidv4() returns an id never used
StoreNew(p, id, resultData) ==
  /\ ~hist[id].inserted
  /\ ~InFlight({"store"}, id)
  /\ StoreStart(p, id, resultData)

NextFresh ==
  \/ Tick
  \/ \E p \in Calls, id \in Ids, resultData \in FreshDatas : StoreNew(p, id, resultData)
  \/ \E p \in Calls : DbInsert(p)
  \/ \E p \in Calls : StoreCache(p)
  \/ \E p \in Calls, id \in Ids : GetHit(p, id)
  \/ \E p \in Calls, id \in Ids : GetMiss(p, id)
  \/ \E p \in Calls : DbSelect(p)
  \/ \E p \in Calls : GetNotFound(p)
  \/ \E p \in Calls : GetFill(p)
  \/ \E p \in Calls, id \in Ids, updateData \in UpdateDatas : UpdHit(p, id, updateData)
  \/ \E p \in Calls, id \in Ids, updateData \in UpdateDatas : UpdMiss(p, id, updateData)
  \/ \E p \in Calls : UpdNotFound(p)
  \/ \E p \in Calls : UpdFill(p)
  \/ \E p \in Calls : DbUpdate(p)
  \/ \E p \in Calls : UpdSync(p)
  \/ \E p \in Calls : UpdThrows(p)
  \/ \E p \in Calls : Cleanup(p)
  \/ \E p \in Calls : CleanEvict(p)
  \/ \E p \in Calls : List(p, Filter("queryId", "q1", <<>>, TRUE))

SpecFresh == InitStore /\ [][NextFresh]_vars

(***************************************************************************)
(* Results with and without ttl stored, read and swept by                  *)
(* cleanupExpiredResults while the clock runs.                             *)
(***************************************************************************)
NextSweep ==
  \/ Tick
  \/ \E p \in Calls, id \in Ids, resultData \in ResultDatas : StoreStart(p, id, resultData)
  \/ \E p \in Calls : DbInsert(p)
  \/ \E p \in Calls : StoreCache(p)
  \/ \E p \in Calls, id \in Ids : GetMiss(p, id)
  \/ \E p \in Calls : DbSelect(p)
  \/ \E p \in Calls : GetNotFound(p)
  \/ \E p \in Calls : GetFill(p)
  \/ \E p \in Calls : Cleanup(p)
  \/ \E p \in Calls : CleanEvict(p)

SpecSweep == InitStore /\ [][NextSweep]_vars

(***************************************************************************)
(* Results stored with tags and listed by tags.                            *)
(***************************************************************************)
TagDatas ==
  {Args("q1", "e1", Some(<<1>>), Undef, tags, Undef) :
     tags \in {Undef, Some(<<"t1">>), Some(<<"t1", "t2">>)}}
TagLists == {<<>>, <<"t1">>, <<"t1", "t2">>, <<"t2", "t3">>}
\* the second argument of getResultsByTags: left out, true or false
MatchAllArgs == {Undef, Some(TRUE), Some(FALSE)}

\* matchAll = true is the default of the parameter; the value is then tested
\* for truth
MatchAllOf(matchAll) ==
  IF ~Present(matchAll) THEN TRUE ELSE IsSome(matchAll) /\ ValOf(matchAll)

getResultsByTags(p, tags, matchAll) ==
  List(p, Filter("tags", "", tags, MatchAllOf(matchAll)))

NextTags ==
  \/ Tick
  \/ \E p \in Calls, id \in Ids, resultData \in TagDatas : StoreNew(p, id, resultData)
  \/ \E p \in Calls : DbInsert(p)
  \/ \E p \in Calls : StoreCache(p)
  \/ \E p \in Calls, tags \in TagLists, matchAll \in MatchAllArgs :
       getResultsByTags(p, tags, matchAll)

SpecTags == InitStore /\ [][NextTags]_vars

(***************************************************************************)
(* One result whose metadata, tags and ttl are updated by one caller, one  *)
(* update after the other, while it is stored and fetched.                 *)
(***************************************************************************)
MaxUpdateOps == 4
\* the slot of the caller that issues the updates
Updater == 1

MetaDatas ==
  {Args("", "", Undef, Some({<<"a", 1>>}), Undef, Undef),
   Args("", "", Undef, Some({<<"b", 2>>}), Undef, Undef),
   Args("", "", Undef, Undef, Some(<<"t1">>), Some(2))}

InitUpdate ==
  /\ StoreConstructed
  /\ compressionEnabled = TRUE
  /\ opsLeft = MaxUpdateOps
  /\ JoinUnused

NextUpdate ==
  \/ \E p \in Calls :
       StoreNew(p, "r1", Args("q1", "e1", Some(<<1>>), Some({<<"a", 0>>}), Undef, Undef))
  \/ \E p \in Calls : DbInsert(p)
  \/ \E p \in Calls : StoreCache(p)
  \/ \E p \in Calls : GetHit(p, "r1")
  \/ \E p \in Calls : GetMiss(p, "r1")
  \/ \E p \in Calls : DbSelect(p)
  \/ \E p \in Calls : GetNotFound(p)
  \/ \E p \in Calls : GetFill(p)
  \/ \E updateData \in MetaDatas : UpdHit(Updater, "r1", updateData)
  \/ \E updateData \in MetaDatas : UpdMiss(Updater, "r1", updateData)
  \/ UpdNotFound(Updater)
  \/ UpdFill(Updater)
  \/ DbUpdate(Updater)
  \/ UpdSync(Updater)

SpecUpdate == InitUpdate /\ [][NextUpdate]_vars

(***************************************************************************)
(* Two callers update the metadata of one stored result, each with a key   *)
(* of its own; the second caller starts while a call of the first is in    *)
(* flight.                                                                 *)
(***************************************************************************)
MetaOf(p) ==
  IF p = 1 THEN Args("", "", Undef, Some({<<"a", 1>>}), Undef, Undef)
  ELSE Args("", "", Undef, Some({<<"b", 2>>}), Undef, Undef)

NextPair ==
  \/ /\ \A p \in Calls : calls[p].op = "none"
     /\ \E id \in Ids :
          StoreNew(1, id, Args("q1", "e1", Some(<<1>>), Some({<<"c", 0>>}), Undef, Undef))
  \/ DbInsert(1)
  \/ StoreCache(1)
  \/ \E p \in Calls, id \in Ids : hist[id].returned /\ UpdHit(p, id, MetaOf(p))
  \/ \E p \in Calls : DbUpdate(p)
  \/ \E p \in Calls : UpdSync(p)

SpecPair == InitUpdate /\ [][NextPair]_vars

(***************************************************************************)
(* storeResult calls that supply the same id, with reads of it and no       *)
(* deleteResult.                                                            *)
(***************************************************************************)
NextSameId ==
  \/ \E p \in Calls, resultData \in ReuseDatas : StoreStart(p, "r1", resultData)
  \/ \E p \in Calls : DbInsert(p)
  \/ \E p \in Calls : DbInsertFails(p)
  \/ \E p \in Calls : StoreCache(p)
  \/ \E p \in Calls : GetHit(p, "r1")
  \/ \E p \in Calls : GetMiss(p, "r1")
  \/ \E p \in Calls : DbSelect(p)
  \/ \E p \in Calls : GetNotFound(p)
  \/ \E p \in Calls : GetFill(p)

SpecSameId == InitReuse /\ [][NextSameId]_vars

(***************************************************************************)
(* storeResult over row sets around the compression threshold.             *)
(***************************************************************************)
\* thresholds at, below and above the sizes of the texts [], [1], [1,2]
Thresholds == {2, 3, 4, 5}
SizedDatas ==
  {Args("q1", "e1", data, Undef, Undef, Undef) :
     data \in {Undef, Some(<<>>), Some(<<1>>), Some(<<1, 2>>)}}

InitTier ==
  /\ now = 0
  /\ table = [id \in Ids |-> <<>>]
  /\ resultsCache = <<>>
  /\ compressionThreshold \in Thresholds
  /\ compressionEnabled \in BOOLEAN
  /\ calls = [p \in Calls |-> IdleCall]
  /\ hist = [id \in Ids |-> NoHist]
  /\ opsLeft = MaxOps
  /\ JoinUnused

NextTier ==
  \/ \E p \in Calls, id \in Ids, resultData \in SizedDatas : StoreNew(p, id, resultData)
  \/ \E p \in Calls : DbInsert(p)
  \/ \E p \in Calls : StoreCache(p)

SpecTier == InitTier /\ [][NextTier]_vars

(***************************************************************************)
(* joinQueries, joinQueriesWithStorage and joinMultipleQueries from the     *)
(* call: the configuration is normalized, the sources are fetched in        *)
(* parallel, then the joins run.  Fetched data are arrays, which            *)
(* _validateDatasets accepts.                                               *)
(***************************************************************************)
\* an element of a join configuration; each property is given or absent
Element(name, leftKey, rightKey, conditions, type) ==
  [name |-> name, leftKey |-> leftKey, rightKey |-> rightKey,
   conditions |-> conditions, type |-> type]

ByKey == Some(<<Cond("k", "k")>>)
Elements ==
  {Element(Some("byKey"), Undef, Undef, ByKey, type) : type \in {Undef, Some("left")}}
  \cup {Element(Undef, Undef, Undef, ByKey, Undef),
        Element(Undef, Some("k"), Some("k"), Undef, Undef),
        Element(Some("byKeyAlt"), Undef, Undef, Undef, Undef),
        Element(Undef, Some("k"), Undef, Undef, Undef),
        Element(Undef, Undef, Undef, Undef, Undef),
        Element(Some("byKeyAlt"), Undef, Undef, Some(<<>>), Undef)}
\* joinConditions: an array of elements or one object
Configs ==
  {[isArray |-> TRUE, items |-> items] : items \in SeqsUpTo(Elements, MaxStrategies)}
  \cup {[isArray |-> FALSE, items |-> <<e>>] : e \in Elements}
SpecElements ==
  {Element(Undef, Undef, Undef, ByKey, type) : type \in {Undef, Some("left"), Some("full")}}
  \cup {Element(Undef, Undef, Undef, Undef, Some("left"))}

\* the callback of joinConfig.map: the strategy of a legacy condition, or
\* Undef where it throws
FromLegacy(condition) ==
  IF IsSome(condition.leftKey) /\ IsSome(condition.rightKey)
  THEN Some(Element(Some(OrElse(condition.name, "join_k_k")), Undef, Undef,
                    Some(<<Cond(ValOf(condition.leftKey), ValOf(condition.rightKey))>>),
                    Some(OrElse(condition.type, "inner"))))
  ELSE IF IsSome(condition.name) /\ IsSome(condition.conditions) THEN Some(condition)
  ELSE Undef

\* the strategies, or Undef where _getJoinStrategies throws
_getJoinStrategies(config) ==
  LET items == config.items IN
  IF config.isArray /\ Len(items) > 0 /\ IsSome(items[1].conditions)
  THEN Some(items)
  ELSE IF config.isArray /\ Len(items) > 0
          /\ (IsSome(items[1].leftKey) \/ IsSome(items[1].name))
  THEN IF \A i \in 1..Len(items) : IsSome(FromLegacy(items[i]))
       THEN Some([i \in 1..Len(items) |-> ValOf(FromLegacy(items[i]))])
       ELSE Undef
  ELSE IF ~config.isArray /\ IsSome(items[1].conditions)
  THEN Some(items)
  ELSE Undef

\* what the loop of joinQueries reads of a strategy; reading
\* strategy.conditions.length throws where conditions is absent, and the loop
\* does not get to joining with such a strategy
AsStrategy(e) ==
  [name |-> OrElse(e.name, Unnamed), conditions |-> OrElse(e.conditions, <<>>),
   type |-> OrElse(e.type, "inner")]

\* _executeQuery: not called, in flight, or resolved with a result
NotFetched == [state |-> "none", success |-> FALSE, data |-> <<>>]
Fetching == [state |-> "started", success |-> FALSE, data |-> <<>>]
FetchResults ==
  {[state |-> "done", success |-> FALSE, data |-> <<>>]}
  \cup {[state |-> "done", success |-> TRUE, data |-> d] :
          d \in SeqsUpTo(NarrowRows, MaxFetchedRows)}
AllFetched == \A i \in 1..Len(fetches) : fetches[i].state = "done"

\* a call of joinQueriesWithStorage or of joinMultipleQueries is about to
\* start; the store is empty and has room for one storeResult
InitCalls ==
  /\ \/ /\ jpc = "call"
        /\ joinConfig \in Configs
        /\ joinSpecs = <<>>
        /\ fetches = <<NotFetched, NotFetched>>
     \/ /\ jpc = "mcall"
        /\ joinConfig = <<>>
        /\ joinSpecs \in SeqsUpTo(SpecElements, MaxSources - 1)
        /\ \E n \in 0..MaxSources : fetches = [i \in 1..n |-> NotFetched]
  /\ leftDataset = <<>> /\ rightDataset = <<>> /\ joinStrategies = <<>>
  /\ jidx = 1 /\ joinResults = <<>>
  /\ bestJoinName = NoName /\ bestJoinCount = -1
  /\ bestJoin = [name |-> NoName, count |-> -1, data |-> <<>>]
  /\ multiResult = <<>> /\ steps = <<>> /\ outcome = NoOutcome
  /\ TrackUnused
  /\ StoreConstructed
  /\ compressionEnabled = TRUE
  /\ opsLeft = 1

\* joinQueries up to Promise.all: _getJoinStrategies, then both fetches start
JoinQueriesCall ==
  /\ jpc = "call"
  /\ LET strategies == _getJoinStrategies(joinConfig) IN
     IF IsSome(strategies)
     THEN /\ joinStrategies' = [i \in 1..Len(ValOf(strategies)) |->
                                  AsStrategy(ValOf(strategies)[i])]
          /\ fetches' = [i \in 1..Len(fetches) |-> Fetching]
          /\ jpc' = "fetch"
          /\ UNCHANGED outcome
     ELSE /\ outcome' = Failure("config", 0)
          /\ jpc' = "done"
          /\ UNCHANGED <<joinStrategies, fetches>>
  /\ UNCHANGED <<leftDataset, rightDataset, jidx, joinResults, bestJoinName,
                 bestJoinCount, bestJoin, joinConfig, joinSpecs, multiResult, steps>>
  /\ UNCHANGED <<storeVars, trackVars>>

\* one _executeQuery resolves
FetchDone(i, result) ==
  /\ jpc \in {"fetch", "mfetch"}
  /\ i \in 1..Len(fetches)
  /\ fetches[i].state = "started"
  /\ fetches' = [fetches EXCEPT ![i] = result]
  /\ UNCHANGED <<leftDataset, rightDataset, joinStrategies, jpc, jidx, joinResults,
                 bestJoinName, bestJoinCount, bestJoin, joinConfig, joinSpecs,
                 multiResult, steps, outcome>>
  /\ UNCHANGED <<storeVars, trackVars>>

\* an error message that names the other query
OtherSide == IF ~fetches[1].success THEN 2 ELSE 1
\* errorMsg: the first query if it failed, else the second
FailedSide == IF ~fetches[1].success THEN 1 ELSE 2

\* joinQueries after Promise.all
Fetched ==
  /\ jpc = "fetch"
  /\ AllFetched
  /\ IF ~fetches[1].success \/ ~fetches[2].success
     THEN /\ outcome' = Failure("fetch", FailedSide)
          /\ jpc' = "done"
          /\ UNCHANGED <<leftDataset, rightDataset>>
     ELSE /\ leftDataset' = fetches[1].data
          /\ rightDataset' = fetches[2].data
          /\ jpc' = "loop"
          /\ UNCHANGED outcome
  /\ UNCHANGED <<joinStrategies, jidx, joinResults, bestJoinName, bestJoinCount,
                 bestJoin, callVars>>
  /\ UNCHANGED <<storeVars, trackVars>>

\* the strategy the loop is at, as _getJoinStrategies returned it
StrategyAt(i) == ValOf(_getJoinStrategies(joinConfig))[i]

\* an iteration of the loop with a strategy that has conditions
RunChecked ==
  /\ jpc = "loop"
  /\ jidx <= Len(joinStrategies)
  /\ IsSome(StrategyAt(jidx).conditions)
  /\ RunStrategy

\* an iteration with a strategy without conditions: the TypeError is caught
StrategyThrows ==
  /\ jpc = "loop"
  /\ jidx <= Len(joinStrategies)
  /\ ~IsSome(StrategyAt(jidx).conditions)
  /\ outcome' = Failure("type", jidx)
  /\ jpc' = "done"
  /\ UNCHANGED <<leftDataset, rightDataset, joinStrategies, jidx, joinResults,
                 bestJoinName, bestJoinCount, bestJoin, callVars>>
  /\ UNCHANGED <<storeVars, trackVars>>

\* joinQueriesWithStorage after joinQueries returned success: the rows of
\* bestJoin.data are given to storeResult, each as one number
StoreJoined(id) ==
  /\ jpc = "done"
  /\ joinConfig # <<>>
  /\ outcome.success
  /\ StoreNew(1, id, Args("q1", "", Some([i \in 1..Len(bestJoin.data) |-> 1]),
                          Undef, Some(<<"joined", "joined">>), Undef))

\* joinMultipleQueries up to Promise.all
MultiCall ==
  /\ jpc = "mcall"
  /\ IF Len(fetches) < 2
     THEN outcome' = Failure("queries", 0) /\ jpc' = "done" /\ UNCHANGED fetches
     ELSE IF Len(fetches) - 1 # Len(joinSpecs)
     THEN outcome' = Failure("specs", 0) /\ jpc' = "done" /\ UNCHANGED fetches
     ELSE /\ fetches' = [i \in 1..Len(fetches) |-> Fetching]
          /\ jpc' = "mfetch"
          /\ UNCHANGED outcome
  /\ UNCHANGED <<leftDataset, rightDataset, joinStrategies, jidx, joinResults,
                 bestJoinName, bestJoinCount, bestJoin, joinConfig, joinSpecs,
                 multiResult, steps>>
  /\ UNCHANGED <<storeVars, trackVars>>

\* joinMultipleQueries after Promise.all
MultiFetched ==
  /\ jpc = "mfetch"
  /\ AllFetched
  /\ LET failed == {i \in 1..Len(fetches) : ~fetches[i].success} IN
     IF failed # {}
     THEN /\ outcome' = Failure("fetch", CHOOSE i \in failed : \A j \in failed : i <= j)
          /\ jpc' = "done"
          /\ UNCHANGED <<multiResult, jidx>>
     ELSE /\ multiResult' = fetches[1].data
          /\ jidx' = 2
          /\ jpc' = "mloop"
          /\ UNCHANGED outcome
  /\ UNCHANGED <<leftDataset, rightDataset, joinStrategies, joinResults, bestJoinName,
                 bestJoinCount, bestJoin, joinConfig, joinSpecs, fetches, steps>>
  /\ UNCHANGED <<storeVars, trackVars>>

\* the rows of a join result, without the positions they were made of
Plain(joined) == [n \in 1..Len(joined) |-> joined[n].row]

\* currentResult = await this._performJoin(currentResult, nextDataset, ...)
MultiJoin(current, next, joinSpec) ==
  Plain(_performJoin(current, next, ValOf(joinSpec.conditions),
                     OrElse(joinSpec.type, "inner"), "none"))

\* one iteration of the loop of joinMultipleQueries, source jidx being
\* datasets[i] and joinSpecs[jidx - 1] being joinSpecs[i - 1]
MultiStep ==
  /\ jpc = "mloop"
  /\ jidx <= Len(fetches)
  /\ LET joinSpec == joinSpecs[jidx - 1] IN
     IF ~IsSome(joinSpec.conditions)
     THEN /\ outcome' = Failure("spec", jidx - 1)
          /\ jpc' = "done"
          /\ UNCHANGED <<multiResult, jidx, steps>>
     ELSE /\ multiResult' = MultiJoin(multiResult, fetches[jidx].data, joinSpec)
          /\ steps' = Append(steps, [left |-> multiResult, right |-> jidx,
                                     spec |-> jidx - 1])
          /\ jidx' = jidx + 1
          /\ UNCHANGED <<outcome, jpc>>
  /\ UNCHANGED <<leftDataset, rightDataset, joinStrategies, joinResults, bestJoinName,
                 bestJoinCount, bestJoin, joinConfig, joinSpecs, fetches>>
  /\ UNCHANGED <<storeVars, trackVars>>

\* the return after the loop: data is currentResult
MultiReturn ==
  /\ jpc = "mloop"
  /\ jidx > Len(fetches)
  /\ outcome' = Success
  /\ jpc' = "done"
  /\ UNCHANGED <<leftDataset, rightDataset, joinStrategies, jidx, joinResults,
                 bestJoinName, bestJoinCount, bestJoin, callVars>>
  /\ UNCHANGED <<storeVars, trackVars>>

NextCalls ==
  \/ JoinQueriesCall
  \/ \E i \in 1..MaxSources, result \in FetchResults : FetchDone(i, result)
  \/ Fetched
  \/ RunChecked
  \/ StrategyThrows
  \/ JoinReturn
  \/ \E id \in Ids : StoreJoined(id)
  \/ DbInsert(1)
  \/ StoreCache(1)
  \/ MultiCall
  \/ MultiFetched
  \/ MultiStep
  \/ MultiReturn

SpecCalls == InitCalls /\ [][NextCalls]_vars

(***************************************************************************)
(* Result tracking: generateRowSignature, buildPreviousResultsIndex and     *)
(* processResultTracking.  The values of the rows are primitives.  A        *)
(* SHA-256 digest is modelled by the text it is taken of: different texts    *)
(* have different digests.  Times are whole numbers.                         *)
(***************************************************************************)
Field(key, val) == [key |-> key, val |-> val]
\* the keys of the rows of this model, in the order of Array.prototype.sort
KeyOrder == <<"_tracking", "email", "id", "name">>

\* Object.keys(dataToHash), unsorted
KeysAsInserted(dataToHash) == [i \in 1..Len(dataToHash) |-> dataToHash[i].key]
\* Object.keys(dataToHash).sort()
SortedKeys(dataToHash) ==
  SelectSeq(KeyOrder, LAMBDA k : Has(dataToHash, k))

\* JSON.stringify of a property value under the replacer array keys: of a
\* nested object the properties named in keys are written, in the order of
\* keys; the elements of an array are all written
StringifyValue(value, keys) ==
  IF value.t = "object"
  THEN LET given == SelectSeq(keys, LAMBDA k : HasOwn(value, k))
       IN JsObject(given, [i \in 1..Len(given) |-> OwnGet(value, given[i])])
  ELSE value

\* JSON.stringify(dataToHash, keys): the properties in the order of keys
StringifyWith(dataToHash, keys) ==
  LET given == SelectSeq(keys, LAMBDA k : Has(dataToHash, k))
  IN [i \in 1..Len(given) |->
        Field(given[i], StringifyValue(Get(dataToHash, given[i]), keys))]

\* the loop over fields with row.hasOwnProperty(field)
Pick(row, fields) ==
  LET given == SelectSeq(fields, LAMBDA f : Has(row, f))
  IN [i \in 1..Len(given) |-> Field(given[i], Get(row, given[i]))]

\* customComparator: "none" is not a function, "throws" throws, "byId" is
\* row => ({ id: row.id })
DataToHash(row, options) ==
  CASE options.markingStrategy = "hash" ->
         IF IsSome(options.hashFields) THEN Pick(row, ValOf(options.hashFields))
         ELSE SelectSeq(row, LAMBDA f : f.key \notin InternalKeys)
    [] options.markingStrategy = "composite" ->
         Pick(row, OrElse(options.compositeFields, <<"id", "name", "email">>))
    [] options.markingStrategy = "custom" ->
         IF options.customComparator = "byId" THEN Pick(row, <<"id">>) ELSE row
    [] OTHER -> row

generateRowSignature(row, options) ==
  LET dataToHash == DataToHash(row, options)
  IN StringifyWith(dataToHash, SortedKeys(dataToHash))

TrackingOptions(markingStrategy, hashFields, compositeFields, customComparator) ==
  [markingStrategy |-> markingStrategy, hashFields |-> hashFields,
   compositeFields |-> compositeFields, customComparator |-> customComparator]
OptionSets ==
  {TrackingOptions("hash", hashFields, Undef, "none") :
     hashFields \in {Undef, Some(<<"id">>), Some(<<"name", "id">>)}}
  \cup {TrackingOptions("composite", Undef, compositeFields, "none") :
          compositeFields \in {Undef, Some(<<"name">>)}}
  \cup {TrackingOptions("custom", Undef, Undef, customComparator) :
          customComparator \in {"none", "throws", "byId"}}
  \cup {TrackingOptions("default", Undef, Undef, "none")}

TrackRows ==
  {<<Field("id", JsNumber(One)), Field("name", JsStr(One))>>,
   <<Field("name", JsStr(One)), Field("id", JsNumber(One))>>,
   <<Field("id", JsStr(One))>>,
   <<Field("_tracking", JsNumber(One)), Field("id", JsNumber(One))>>}
RowSets == SeqsUpTo(TrackRows, MaxTrackedRows)

\* a row of query_executions; results is NULL, an array of rows, or JSON
\* that is not an array
NotArray == [k |-> "object", v |-> <<>>]
Execution(query_signature, status, results) ==
  [query_signature |-> query_signature, status |-> status, results |-> results]
ExecutionSet ==
  {Execution("same", "completed", results) :
     results \in {Null, NotArray} \cup {Some(rows) : rows \in RowSets}}
  \cup {Execution("same", status, Some(<<<<Field("id", JsStr(One))>>>>)) :
          status \in {"executing", "error", "cancelled"}}
  \cup {Execution("other", "completed", Some(<<<<Field("id", JsStr(One))>>>>))}

\* queryOptions.limit
QueryLimit == 50
\* LIMIT n
Limit(rows, n) == IF Len(rows) <= n THEN rows ELSE SubSeq(rows, 1, n)

\* a SELECT that leaves out the test of the status
ExecutionsOfAnyStatus(querySignature) ==
  LET found == SelectSeq(executions,
                         LAMBDA e : /\ e.query_signature = querySignature
                                    /\ e.results # Null)
  IN Limit(found, QueryLimit)
\* the SELECT of getPreviousExecutionsWithResults; the rows of executions
\* are listed by completed_at, the latest first
getPreviousExecutionsWithResults(querySignature) ==
  LET found == SelectSeq(executions,
                         LAMBDA e : /\ e.query_signature = querySignature
                                    /\ e.status = "completed"
                                    /\ e.results # Null)
  IN Limit(found, QueryLimit)

\* execution.completed_at || execution.started_at
SeenAt(execution) == OrElse(execution.completed_at, execution.started_at)

\* the index: per signature the number of rows of the previous executions
\* that have it, the time of the execution that created the entry, the time
\* of the execution that updated it last, and the executions of these rows
buildPreviousResultsIndex(previous, options) ==
  LET seen == Flatten([e \in 1..Len(previous) |->
                         IF IsSome(previous[e].results)
                         THEN [i \in 1..Len(ValOf(previous[e].results)) |->
                                 [signature |->
                                    generateRowSignature(ValOf(previous[e].results)[i], options),
                                  id |-> previous[e].id,
                                  at |-> SeenAt(previous[e])]]
                         ELSE <<>>])
  IN [signature \in {seen[n].signature : n \in 1..Len(seen)} |->
        LET rows == SelectSeq(seen, LAMBDA x : x.signature = signature)
        IN [count |-> Len(rows),
            firstSeen |-> rows[1].at,
            lastSeen |-> rows[Len(rows)].at,
            executionIds |-> [n \in 1..Len(rows) |-> rows[n].id]]]

\* the rows of query_executions are listed the latest first: row i of n
\* started and ended at time n - i + 1; an execution that is still running
\* has no completed_at
StartedAt(es, i) == Len(es) - i + 1
CompletedAt(es, i) == IF es[i].status = "executing" THEN Null ELSE Some(Len(es) - i + 1)
\* new Date() of a call made after every execution of the table
Today == Len(executions) + 1

\* a JavaScript number that is a whole number or NaN
NaN == [isNaN |-> TRUE, n |-> 0]
Num(n) == [isNaN |-> FALSE, n |-> n]
\* Math.round((count / total) * 100)
RoundedPercentage(count, total) ==
  IF total = 0 THEN NaN ELSE Num((200 * count + total) \div (2 * total))

\* the stats of the object processResultTracking returns
TrackingStats(marked, previous) ==
  LET newCount == Len(SelectSeq(marked, LAMBDA m : m.isNew))
      previouslySeenCount == Len(SelectSeq(marked, LAMBDA m : ~m.isNew))
  IN [totalRows |-> Len(currentResults),
      newRows |-> newCount,
      previouslySeenRows |-> previouslySeenCount,
      executionsSearched |-> Len(previous),
      newRowPercentage |-> RoundedPercentage(newCount, Len(currentResults))]

\* a call of processResultTracking is about to start
InitTrack ==
  /\ trackingOptions \in OptionSets
  /\ currentResults \in RowSets
  /\ \E es \in SeqsUpTo(ExecutionSet, MaxExecutions) :
       executions = [i \in 1..Len(es) |->
                       [id |-> i, query_signature |-> es[i].query_signature,
                        status |-> es[i].status, results |-> es[i].results,
                        started_at |-> StartedAt(es, i),
                        completed_at |-> CompletedAt(es, i)]]
  /\ previousExecutions = <<>>
  /\ markedResults = <<>>
  /\ tpc = "fetch"
  /\ ExtraUnused
  /\ joinConfig = <<>> /\ joinSpecs = <<>> /\ fetches = <<>>
  /\ multiResult = <<>> /\ steps = <<>> /\ outcome = NoOutcome
  /\ leftDataset = <<>> /\ rightDataset = <<>> /\ joinStrategies = <<>>
  /\ jpc = "done" /\ jidx = 1 /\ joinResults = <<>>
  /\ bestJoinName = NoName /\ bestJoinCount = -1
  /\ bestJoin = [name |-> NoName, count |-> -1, data |-> <<>>]
  /\ StoreUnused

\* await queryStore.getPreviousExecutionsWithResults(querySignature)
TrackFetch ==
  /\ tpc = "fetch"
  /\ previousExecutions' = getPreviousExecutionsWithResults("same")
  /\ tpc' = "mark"
  /\ UNCHANGED <<trackingOptions, currentResults, executions, markedResults, extraVars>>
  /\ UNCHANGED <<leftDataset, rightDataset, joinStrategies, jpc, jidx, joinResults,
                 bestJoinName, bestJoinCount, bestJoin, callVars, outcome, storeVars>>

\* the index is built and the current rows are marked
TrackMark ==
  /\ tpc = "mark"
  /\ LET previousResultsIndex == buildPreviousResultsIndex(previousExecutions, trackingOptions)
     IN markedResults' =
          [i \in 1..Len(currentResults) |->
             LET rowSignature == generateRowSignature(currentResults[i], trackingOptions)
                 seenBefore == rowSignature \in DOMAIN previousResultsIndex
             IN [row |-> currentResults[i],
                 isNew |-> ~seenBefore,
                 signature |-> rowSignature,
                 firstSeen |->
                   IF seenBefore THEN previousResultsIndex[rowSignature].firstSeen ELSE Today,
                 lastSeenBefore |->
                   IF seenBefore THEN Some(previousResultsIndex[rowSignature].lastSeen)
                   ELSE Null,
                 occurrenceCount |->
                   IF seenBefore THEN previousResultsIndex[rowSignature].count + 1 ELSE 1,
                 executionIds |->
                   IF seenBefore THEN previousResultsIndex[rowSignature].executionIds
                   ELSE <<>>]]
  /\ stats' = TrackingStats(markedResults', previousExecutions)
  /\ tpc' = "done"
  /\ UNCHANGED <<trackingOptions, currentResults, executions, previousExecutions,
                 signatures, wrapped, exec, fuzzy, moreVars>>
  /\ UNCHANGED <<leftDataset, rightDataset, joinStrategies, jpc, jidx, joinResults,
                 bestJoinName, bestJoinCount, bestJoin, callVars, outcome, storeVars>>

NextTrack == TrackFetch \/ TrackMark

SpecTrack == InitTrack /\ [][NextTrack]_vars

(***************************************************************************)
(* Result tracking under the hash strategy without hashFields, on rows     *)
(* whose id is an object, an array or a number.                            *)
(***************************************************************************)
MaxNestedRows == 1

Two == <<"2">>
NestedValues ==
  {JsNumber(One),
   JsObject(<<"x">>, <<Prim("number", One)>>), JsObject(<<"x">>, <<Prim("number", Two)>>),
   JsObject(<<"id">>, <<Prim("number", One)>>), JsObject(<<"id">>, <<Prim("number", Two)>>),
   JsArray(<<Prim("number", One)>>), JsArray(<<Prim("number", Two)>>)}
NestedRows ==
  {<<Field("id", v)>> : v \in NestedValues}
  \cup {<<Field("_tracking", JsNumber(One)), Field("id", JsObject(<<"x">>, <<Prim("number", One)>>))>>}

InitNested ==
  /\ trackingOptions = TrackingOptions("hash", Undef, Undef, "none")
  /\ currentResults \in SeqsUpTo(NestedRows, MaxNestedRows)
  /\ \E es \in SeqsUpTo({Execution("same", "completed", Some(rows)) :
                           rows \in SeqsUpTo(NestedRows, MaxNestedRows)}, MaxExecutions) :
       executions = [i \in 1..Len(es) |->
                       [id |-> i, query_signature |-> es[i].query_signature,
                        status |-> es[i].status, results |-> es[i].results,
                        started_at |-> StartedAt(es, i),
                        completed_at |-> CompletedAt(es, i)]]
  /\ previousExecutions = <<>>
  /\ markedResults = <<>>
  /\ tpc = "fetch"
  /\ ExtraUnused
  /\ joinConfig = <<>> /\ joinSpecs = <<>> /\ fetches = <<>>
  /\ multiResult = <<>> /\ steps = <<>> /\ outcome = NoOutcome
  /\ leftDataset = <<>> /\ rightDataset = <<>> /\ joinStrategies = <<>>
  /\ jpc = "done" /\ jidx = 1 /\ joinResults = <<>>
  /\ bestJoinName = NoName /\ bestJoinCount = -1
  /\ bestJoin = [name |-> NoName, count |-> -1, data |-> <<>>]
  /\ StoreUnused

SpecNested == InitNested /\ [][NextTrack]_vars

(***************************************************************************)
(* getTrackingStatistics: the executions of one query id are read and      *)
(* their rows are indexed by signature.  topRepeatingRows is left out.     *)
(***************************************************************************)
\* queryOptions.limit of getQueryExecutionsWithResults
ExecutionsLimit == 20

\* the options of getQueryExecutionsWithResults: its defaults, overridden by
\* the options of the caller
QueryOptions(options) ==
  [includeResults |-> OrElse(options.includeResults, FALSE),
   limit |-> OrElse(options.limit, ExecutionsLimit)]
\* a call without options
NoOptions == [includeResults |-> Undef, limit |-> Undef]

\* the SELECT of getQueryExecutionsWithResults and the mapping of its rows;
\* the rows of executions are listed by started_at, the latest first
getQueryExecutionsWithResults(queryId, options) ==
  LET queryOptions == QueryOptions(options)
      found == Limit(SelectSeq(executions, LAMBDA e : e.query_id = queryId),
                     queryOptions.limit)
  IN [n \in 1..Len(found) |->
        [found[n] EXCEPT !.results = IF queryOptions.includeResults THEN @ ELSE Null]]

HashOnly == TrackingOptions("hash", Undef, Undef, "none")

\* the signatures of rows
SignaturesOf(rows) == {generateRowSignature(rows[i], HashOnly) : i \in 1..Len(rows)}

\* a fraction a / b of JavaScript numbers; 0 / 0 is NaN
Fraction(a, b) == [isNaN |-> b = 0, num |-> a, den |-> b]

\* the loop over executions: known holds the signatures in globalRowIndex
RECURSIVE ExecutionTrends(_, _)
ExecutionTrends(found, known) ==
  IF found = <<>> THEN <<>>
  ELSE IF ~IsSome(Head(found).results) THEN ExecutionTrends(Tail(found), known)
  ELSE LET rows == ValOf(Head(found).results)
           newRowsInExecution == Cardinality(SignaturesOf(rows) \ known)
       IN <<[executionId |-> Head(found).id,
             totalRows |-> Len(rows),
             newRows |-> newRowsInExecution,
             repeatingRows |-> Len(rows) - newRowsInExecution,
             newRowPercentage |-> RoundedPercentage(newRowsInExecution, Len(rows))]>>
          \o ExecutionTrends(Tail(found), known \cup SignaturesOf(rows))

\* the statistics getTrackingStatistics returns for the executions found
Statistics(found) ==
  IF found = <<>> THEN [totalExecutions |-> 0]
  ELSE LET withRows == SelectSeq(found, LAMBDA e : IsSome(e.results))
           executionTrends == ExecutionTrends(found, {})
       IN [totalExecutions |-> Len(found),
           executionsWithResults |->
             Len(SelectSeq(withRows, LAMBDA e : Len(ValOf(e.results)) > 0)),
           totalUniqueRows |->
             Cardinality(UNION {SignaturesOf(ValOf(withRows[n].results)) :
                                  n \in 1..Len(withRows)}),
           averageNewRowsPerExecution |->
             Fraction(SumOf([n \in 1..Len(executionTrends) |-> executionTrends[n].newRows]),
                      Len(executionTrends)),
           executionTrends |-> executionTrends]

\* the query ids of the model; getTrackingStatistics is called for the first
QueryIds == {"q1", "q2"}

InitStatistics ==
  /\ \E es \in SeqsUpTo([query_id : QueryIds,
                         results : {Null} \cup {Some(rows) : rows \in RowSets}],
                        MaxExecutions) :
       executions = [i \in 1..Len(es) |->
                       [id |-> i, query_id |-> es[i].query_id, status |-> "completed",
                        results |-> es[i].results,
                        started_at |-> Len(es) - i + 1,
                        completed_at |-> Some(Len(es) - i + 1)]]
  /\ trackingOptions = <<>>
  /\ currentResults = <<>>
  /\ previousExecutions = <<>>
  /\ markedResults = <<>>
  /\ tpc = "statistics"
  /\ ExtraUnused
  /\ joinConfig = <<>> /\ joinSpecs = <<>> /\ fetches = <<>>
  /\ multiResult = <<>> /\ steps = <<>> /\ outcome = NoOutcome
  /\ leftDataset = <<>> /\ rightDataset = <<>> /\ joinStrategies = <<>>
  /\ jpc = "done" /\ jidx = 1 /\ joinResults = <<>>
  /\ bestJoinName = NoName /\ bestJoinCount = -1
  /\ bestJoin = [name |-> NoName, count |-> -1, data |-> <<>>]
  /\ StoreUnused

\* await queryStore.getQueryExecutionsWithResults(queryId)
StatisticsFetch ==
  /\ tpc = "statistics"
  /\ previousExecutions' = getQueryExecutionsWithResults("q1", NoOptions)
  /\ tpc' = "analyze"
  /\ UNCHANGED <<trackingOptions, currentResults, executions, markedResults, extraVars>>
  /\ UNCHANGED <<joinOwn, storeVars>>

\* the rows are indexed and the statistics are returned
StatisticsReturn ==
  /\ tpc = "analyze"
  /\ stats' = Statistics(previousExecutions)
  /\ tpc' = "returned"
  /\ UNCHANGED <<trackingOptions, currentResults, executions, previousExecutions,
                 markedResults, signatures, wrapped, exec, fuzzy, moreVars>>
  /\ UNCHANGED <<joinOwn, storeVars>>

NextStatistics == StatisticsFetch \/ StatisticsReturn

SpecStatistics == InitStatistics /\ [][NextStatistics]_vars

(***************************************************************************)
(* generateQuerySignature.  A SQL text is a sequence of characters; the      *)
(* digest is modelled by the text it is taken of.                           *)
(***************************************************************************)
Whitespace == {" ", "\t"}
SqlChars == {"A", "a", " ", "\t"}
\* String.prototype.toLowerCase on the characters of this model
LowerChar(ch) == IF ch = "A" THEN "a" ELSE ch
ToLowerCase(text) == [i \in 1..Len(text) |-> LowerChar(text[i])]

\* text.replace(/\s+/g, ' '): every maximal run of whitespace becomes one space
RECURSIVE ReplaceRuns(_)
ReplaceRuns(text) ==
  IF text = <<>> THEN <<>>
  ELSE IF Head(text) \in Whitespace
    THEN IF Len(text) > 1 /\ text[2] \in Whitespace
         THEN ReplaceRuns(Tail(text))
         ELSE <<" ">> \o ReplaceRuns(Tail(text))
  ELSE <<Head(text)>> \o ReplaceRuns(Tail(text))

\* String.prototype.trim
RECURSIVE TrimStart(_)
TrimStart(text) ==
  IF text # <<>> /\ Head(text) \in Whitespace THEN TrimStart(Tail(text)) ELSE text
RECURSIVE TrimEnd(_)
TrimEnd(text) ==
  IF text # <<>> /\ text[Len(text)] \in Whitespace
  THEN TrimEnd(SubSeq(text, 1, Len(text) - 1)) ELSE text
Trim(text) == TrimEnd(TrimStart(text))

\* the parameter names of this model in the order of Array.prototype.sort
ParamOrder == <<"p", "q">>
\* a signature that takes the parameter names as they were inserted
UnsortedParamKeys(bindParams) == [i \in 1..Len(bindParams) |-> bindParams[i].key]
\* Object.keys(bindParams || {}).sort()
ParamKeys(bindParams) == SelectSeq(ParamOrder, LAMBDA k : Has(bindParams, k))

generateQuerySignature(sql, bindParams) ==
  [sql |-> ToLowerCase(Trim(ReplaceRuns(sql))), paramKeys |-> ParamKeys(bindParams)]

\* one call of generateQuerySignature
Sign(sql, bindParams) ==
  /\ Len(signatures) < MaxSignatures
  /\ signatures' = Append(signatures,
                          [sql |-> sql, bindParams |-> bindParams,
                           signature |-> generateQuerySignature(sql, bindParams)])
  /\ UNCHANGED <<trackOwn, wrapped, exec, fuzzy, stats, moreVars>>
  /\ UNCHANGED <<joinOwn, storeVars>>

InitSign == JoinUnused /\ StoreUnused

NextSign ==
  \E sql \in SeqsUpTo(SqlChars, MaxSqlLen),
     bindParams \in {<<>>, <<Field("p", 1)>>, <<Field("p", 2)>>, <<Field("q", 1)>>,
                     <<Field("p", 1), Field("q", 2)>>, <<Field("q", 1), Field("p", 1)>>} :
    Sign(sql, bindParams)

SpecSign == InitSign /\ [][NextSign]_vars

(***************************************************************************)
(* The ...WithStorage functions of query-service-ext.js: the wrapped       *)
(* operation runs, then storeResult when it is asked for, then the result  *)
(* returns with its storage field.                                         *)
(***************************************************************************)
MaxWraps == 2

Wrappers ==
  {"executeQueryWithStorage", "executeQueryByIdWithStorage",
   "executeAdhocQueryWithStorage", "joinQueriesWithStorage",
   "joinMultipleQueriesWithStorage"}

\* what the wrapped operation resolves to: success with its rows (data, or
\* bestJoin.data of joinQueries), or success false and an error
WrappedResult(success, data) == [success |-> success, data |-> data, storage |-> Undef]
WrappedResults == {WrappedResult(TRUE, Some(<<>>)), WrappedResult(TRUE, Some(<<1>>)), WrappedResult(FALSE, Undef)}

\* options.storeResults: not given, true or false
WrapOptions == {[storeResults |-> v] : v \in {Undef, Some(TRUE), Some(FALSE)}}

\* storageOptions.storeResults: options.storeResults !== false
StoreResults(options) == options.storeResults # Some(FALSE)

\* a test that forgets result.success
StoresAnyResult(options, result) == StoreResults(options)
\* if (storageOptions.storeResults && result.success)
ShouldStore(options, result) == StoreResults(options) /\ result.success

\* the else branches: the reason of a result not stored
NotStored(options) ==
  [stored |-> FALSE, resultId |-> "",
   why |-> IF ~StoreResults(options) THEN "disabled" ELSE "failed"]

\* the argument of storeResult: resultTags || [] for the query wrappers, with
\* the tag of the join type appended for the join wrappers
WrapArgs(wrapper, result) ==
  Args(IF wrapper = "joinMultipleQueriesWithStorage" THEN "" ELSE "q1",
       IF wrapper \in {"joinQueriesWithStorage", "joinMultipleQueriesWithStorage"}
       THEN "" ELSE "e1",
       result.data, Some({<<"a", 1>>}),
       IF wrapper = "joinQueriesWithStorage" THEN Some(<<"joined", "joined">>)
       ELSE IF wrapper = "joinMultipleQueriesWithStorage"
       THEN Some(<<"multi-joined", "multi-joined">>)
       ELSE Some(<<>>),
       Undef)

WrapRunning == wrapped # <<>> /\ wrapped[Len(wrapped)].pc # "returned"

\* a wrapper is called and the wrapped operation resolves; without a
\* storeResult to make the wrapper returns at once
WrapCall(wrapper, options, result) ==
  /\ ~WrapRunning
  /\ Len(wrapped) < MaxWraps
  /\ wrapped' =
       Append(wrapped,
              [wrapper |-> wrapper, options |-> options, underlying |-> result,
               storeResult |-> "none",
               result |-> IF ShouldStore(options, result) THEN result
                          ELSE [result EXCEPT !.storage = Some(NotStored(options))],
               pc |-> IF ShouldStore(options, result) THEN "store" ELSE "returned"])
  /\ UNCHANGED <<trackOwn, signatures, exec, fuzzy, stats, moreVars>>
  /\ UNCHANGED <<joinOwn, storeVars>>

\* the wrapper calls storeResult, which takes a new id
WrapStore(id) ==
  LET w == wrapped[Len(wrapped)] IN
  /\ WrapRunning
  /\ w.pc = "store"
  /\ ~hist[id].inserted
  /\ ~InFlight({"store"}, id)
  /\ StoreBegin(1, id, WrapArgs(w.wrapper, w.result))
  /\ wrapped' = [wrapped EXCEPT ![Len(wrapped)].pc = "storing",
                                ![Len(wrapped)].storeResult = "called"]
  /\ UNCHANGED <<trackOwn, signatures, exec, fuzzy, stats, moreVars>>
  /\ UNCHANGED joinOwn

\* the INSERT is rejected by the database: storeResult logs and throws
DbRejects(p) ==
  LET c == calls[p] IN
  /\ c.op = "store" /\ c.pc = "insert"
  /\ calls' = [calls EXCEPT ![p] = Done(c, "error", Undef, FALSE)]
  /\ UNCHANGED <<now, table, resultsCache, compressionEnabled, compressionThreshold,
                 opsLeft, hist>>
  /\ UNCHANGED joinVars

\* storeResult returned or threw: the try block or the catch block sets
\* result.storage, and the wrapper returns
WrapReturn ==
  LET w == wrapped[Len(wrapped)]
      c == calls[1]
      storage == IF c.out.status = "ok"
                 THEN [stored |-> TRUE, resultId |-> c.id, why |-> ""]
                 ELSE [stored |-> FALSE, resultId |-> "", why |-> "error"]
  IN
  /\ WrapRunning
  /\ w.pc = "storing"
  /\ c.pc = "idle"
  /\ wrapped' = [wrapped EXCEPT ![Len(wrapped)].pc = "returned",
                                ![Len(wrapped)].storeResult = c.out.status,
                                ![Len(wrapped)].result.storage = Some(storage)]
  /\ UNCHANGED <<trackOwn, signatures, exec, fuzzy, stats, moreVars>>
  /\ UNCHANGED <<joinOwn, storeVars>>

InitWrap ==
  /\ StoreConstructed
  /\ compressionEnabled = TRUE
  /\ opsLeft = MaxWraps
  /\ JoinUnused

NextWrap ==
  \/ \E wrapper \in Wrappers, options \in WrapOptions, result \in WrappedResults :
       WrapCall(wrapper, options, result)
  \/ \E id \in Ids : WrapStore(id)
  \/ DbInsert(1)
  \/ DbRejects(1)
  \/ StoreCache(1)
  \/ WrapReturn

SpecWrap == InitWrap /\ [][NextWrap]_vars

(***************************************************************************)
(* An execution record of executeQueryById: recordExecution wrote status   *)
(* executing, the query runs, progress events call the progress callback,  *)
(* cancelQuery may be called, and the query resolves.  updateExecution     *)
(* reads the record and then writes it.                                    *)
(***************************************************************************)
MaxCallbacks == 2

TerminalStatuses == {"completed", "error", "cancelled"}

\* a progress event of the running query: executionProgressCallback is
\* called and awaits updateExecution
ProgressEvent ==
  /\ exec.main = "running"
  /\ Len(exec.callbacks) < MaxCallbacks
  /\ exec' = [exec EXCEPT !.callbacks = Append(@, "select")]
  /\ UNCHANGED <<trackOwn, signatures, wrapped, fuzzy, stats, moreVars>>
  /\ UNCHANGED <<joinOwn, storeVars>>

\* updateExecution of a progress callback: the SELECT finds the record
CallbackSelect(i) ==
  /\ i \in 1..Len(exec.callbacks)
  /\ exec.callbacks[i] = "select"
  /\ exec' = [exec EXCEPT !.callbacks[i] = "update"]
  /\ UNCHANGED <<trackOwn, signatures, wrapped, fuzzy, stats, moreVars>>
  /\ UNCHANGED <<joinOwn, storeVars>>

\* updateExecution of a progress callback: UPDATE ... SET status = 'executing'
CallbackUpdate(i) ==
  /\ i \in 1..Len(exec.callbacks)
  /\ exec.callbacks[i] = "update"
  /\ exec' = [exec EXCEPT !.callbacks[i] = "done", !.status = "executing"]
  /\ UNCHANGED <<trackOwn, signatures, wrapped, fuzzy, stats, moreVars>>
  /\ UNCHANGED <<joinOwn, storeVars>>

\* executeQuery resolves with success or with the error of the query; the
\* subscription of the progress callback ends
QueryResolves(success) ==
  /\ exec.main = "running"
  /\ exec' = [exec EXCEPT !.main = "select", !.success = success]
  /\ UNCHANGED <<trackOwn, signatures, wrapped, fuzzy, stats, moreVars>>
  /\ UNCHANGED <<joinOwn, storeVars>>

\* the final updateExecution of executeQueryById: its SELECT
FinalSelect ==
  /\ exec.main = "select"
  /\ exec' = [exec EXCEPT !.main = "update"]
  /\ UNCHANGED <<trackOwn, signatures, wrapped, fuzzy, stats, moreVars>>
  /\ UNCHANGED <<joinOwn, storeVars>>

\* the final updateExecution: status completed or error is written
FinalUpdate ==
  /\ exec.main = "update"
  /\ exec' = [exec EXCEPT !.main = "done",
                          !.status = IF exec.success THEN "completed" ELSE "error"]
  /\ UNCHANGED <<trackOwn, signatures, wrapped, fuzzy, stats, moreVars>>
  /\ UNCHANGED <<joinOwn, storeVars>>

\* cancelQuery is called: getExecution, then queryManager.cancelQuery
CancelCall ==
  /\ exec.cancel = "idle"
  /\ exec.status # "none"
  /\ exec' = [exec EXCEPT !.cancel = "manager"]
  /\ UNCHANGED <<trackOwn, signatures, wrapped, fuzzy, stats, moreVars>>
  /\ UNCHANGED <<joinOwn, storeVars>>

\* queryManager.cancelQuery resolves: true for a running query, false for a
\* query that is over
CancelAnswered ==
  /\ exec.cancel = "manager"
  /\ exec' = [exec EXCEPT !.cancel = IF exec.main = "running" THEN "select" ELSE "done"]
  /\ UNCHANGED <<trackOwn, signatures, wrapped, fuzzy, stats, moreVars>>
  /\ UNCHANGED <<joinOwn, storeVars>>

\* updateExecution of cancelQuery: its SELECT
CancelSelect ==
  /\ exec.cancel = "select"
  /\ exec' = [exec EXCEPT !.cancel = "update"]
  /\ UNCHANGED <<trackOwn, signatures, wrapped, fuzzy, stats, moreVars>>
  /\ UNCHANGED <<joinOwn, storeVars>>

\* updateExecution of cancelQuery: status cancelled is written
CancelUpdate ==
  /\ exec.cancel = "update"
  /\ exec' = [exec EXCEPT !.cancel = "done", !.status = "cancelled"]
  /\ UNCHANGED <<trackOwn, signatures, wrapped, fuzzy, stats, moreVars>>
  /\ UNCHANGED <<joinOwn, storeVars>>

\* after recordExecution, when executeQuery was called
InitExec ==
  /\ exec = [NoExec EXCEPT !.status = "executing", !.main = "running"]
  /\ signatures = <<>>
  /\ wrapped = <<>>
  /\ fuzzy = <<>>
  /\ MoreUnused
  /\ trackingOptions = <<>> /\ currentResults = <<>> /\ executions = <<>>
  /\ previousExecutions = <<>> /\ markedResults = <<>> /\ tpc = "done"
  /\ joinConfig = <<>> /\ joinSpecs = <<>> /\ fetches = <<>>
  /\ multiResult = <<>> /\ steps = <<>> /\ outcome = NoOutcome
  /\ leftDataset = <<>> /\ rightDataset = <<>> /\ joinStrategies = <<>>
  /\ jpc = "done" /\ jidx = 1 /\ joinResults = <<>>
  /\ bestJoinName = NoName /\ bestJoinCount = -1
  /\ bestJoin = [name |-> NoName, count |-> -1, data |-> <<>>]
  /\ StoreUnused

NextExec ==
  \/ ProgressEvent
  \/ \E i \in 1..MaxCallbacks : CallbackSelect(i)
  \/ \E i \in 1..MaxCallbacks : CallbackUpdate(i)
  \/ \E success \in BOOLEAN : QueryResolves(success)
  \/ FinalSelect
  \/ FinalUpdate
  \/ CancelCall
  \/ CancelAnswered
  \/ CancelSelect
  \/ CancelUpdate

SpecExec == InitExec /\ [][NextExec]_vars

(***************************************************************************)
(* The fuzzy join.  The approximate matcher (Fuse.js) is an input: for     *)
(* every left row and condition, found holds the matches of the search,    *)
(* each a right row (by position) with its score.  Scores are in tenths    *)
(* and even, so that the average of the scores of two conditions is whole. *)
(***************************************************************************)
\* defaultFuzzyOptions.threshold, in tenths
Threshold == 3
\* defaultFuzzyOptions.maxResultsPerKey
MaxResultsPerKey == 5

\* a joined row with the positions it was merged from and, for a matched
\* pair, the score it was accepted with (-1 for a null side)
FuzzyJoined(row, l, r, score) == [row |-> row, l |-> l, r |-> r, score |-> score]

\* searchPatterns: the conditions whose left value is neither null nor
\* undefined
SearchPatterns(leftRow, joinConditions) ==
  SelectSeq(IdxSeq(Len(joinConditions)),
            LAMBDA c : ~IsNullish(_getNestedProperty(SomeRow(leftRow),
                                                     joinConditions[c].leftKey)))

\* matches.slice(0, fuzzyOptions.maxResultsPerKey)
Sliced(matches, fuzzyOptions) == Limit(matches, fuzzyOptions.maxResultsPerKey)

\* conditionMatches, flattened in the order the two loops visit the matches
ConditionMatches(patterns, found, fuzzyOptions) ==
  LET hit == SelectSeq(patterns, LAMBDA c : Len(found[c]) > 0)
  IN Flatten([n \in 1..Len(hit) |->
                [m \in 1..Len(Sliced(found[hit[n]], fuzzyOptions)) |->
                   [r |-> found[hit[n]][m].r, score |-> found[hit[n]][m].score]]])

\* allMatchingRows after one more match: a new entry, or with AND logic one
\* more condition of the entry of the row and the new average
AddMatch(all, match, useOrLogic) ==
  LET at == SelectSeq(IdxSeq(Len(all)), LAMBDA n : all[n].r = match.r)
      first == [r |-> match.r, scores |-> <<match.score>>, avgScore |-> match.score]
  IN IF at = <<>> THEN Append(all, first)
     ELSE IF useOrLogic THEN [all EXCEPT ![at[1]] = first]
     ELSE LET scores == Append(all[at[1]].scores, match.score)
          IN [all EXCEPT ![at[1]] = [r |-> match.r, scores |-> scores,
                                     avgScore |-> SumOf(scores) \div Len(scores)]]

RECURSIVE AllMatchingRows(_, _, _)
AllMatchingRows(all, matches, useOrLogic) ==
  IF matches = <<>> THEN all
  ELSE AllMatchingRows(AddMatch(all, Head(matches), useOrLogic), Tail(matches), useOrLogic)

\* matchingRows.sort((a, b) => a.score - b.score): a stable sort
RECURSIVE SortByScore(_)
SortByScore(rows) ==
  IF rows = <<>> THEN <<>>
  ELSE LET sorted == SortByScore(SubSeq(rows, 1, Len(rows) - 1))
           x == rows[Len(rows)]
       IN SelectSeq(sorted, LAMBDA y : y.score <= x.score) \o <<x>>
          \o SelectSeq(sorted, LAMBDA y : y.score > x.score)

\* the rows one iteration of the loop over leftDataset pushes
FuzzyRowOutput(i, leftRow, rightDs, joinConditions, joinType, transform, fuzzyOptions, found) ==
  LET patterns == SearchPatterns(leftRow, joinConditions)
      conditionMatches == ConditionMatches(patterns, found, fuzzyOptions)
      all == AllMatchingRows(<<>>, conditionMatches, fuzzyOptions.useOrLogic)
      kept == SelectSeq(all, LAMBDA e : \/ fuzzyOptions.useOrLogic
                                        \/ Len(e.scores) = Len(joinConditions))
      matchingRows == [n \in 1..Len(kept) |-> [r |-> kept[n].r, score |-> kept[n].avgScore]]
      ordered == IF fuzzyOptions.sortFuzzyResults THEN SortByScore(matchingRows)
                 ELSE matchingRows
      within == SelectSeq(ordered, LAMBDA m : m.score <= fuzzyOptions.threshold)
      nullRight == IF joinType \in {"left", "full"}
                   THEN <<FuzzyJoined(_mergeRows(SomeRow(leftRow), NullRow, transform), i, 0, -1)>>
                   ELSE <<>>
  IN IF patterns = <<>> THEN nullRight
     ELSE IF conditionMatches # <<>>
     THEN [n \in 1..Len(within) |->
             LET joinedRow == _mergeRows(SomeRow(leftRow), SomeRow(rightDs[within[n].r]),
                                         transform)
             IN FuzzyJoined(IF fuzzyOptions.includeScoreInResult
                            THEN Put(joinedRow, "_fuzzyScore",
                                     JsNumber(<<DigitText(within[n].score)>>))
                            ELSE joinedRow,
                            i, within[n].r, within[n].score)]
     ELSE nullRight

_performFuzzyJoin(leftDs, rightDs, joinConditions, joinType, transform, fuzzyOptions, found) ==
  LET leftDriven ==
        Flatten([i \in 1..Len(leftDs) |->
                   FuzzyRowOutput(i, leftDs[i], rightDs, joinConditions, joinType, transform,
                                  fuzzyOptions, found[i])])
      matchedRightRows ==
        IF MarksMatched(joinType)
        THEN {leftDriven[n].r : n \in 1..Len(leftDriven)} \ {0}
        ELSE {}
      unmatched == SelectSeq(IdxSeq(Len(rightDs)), LAMBDA j : j \notin matchedRightRows)
  IN IF joinType \in {"right", "full"}
     THEN leftDriven \o
          [n \in 1..Len(unmatched) |->
             FuzzyJoined(_mergeRows(NullRow, SomeRow(rightDs[unmatched[n]]), transform),
                         0, unmatched[n], -1)]
     ELSE leftDriven

MaxFuzzyLeft == 2
MaxFuzzyRows == 3

\* the scores the matcher gives, below and above the threshold
FuzzyScores == {0, 4}
FuzzyLeftRows ==
  {<<[key |-> "k", val |-> JsStr(<<"a">>)], [key |-> "j", val |-> JsStr(<<"a">>)]>>,
   <<[key |-> "j", val |-> JsStr(<<"a">>)]>>}
FuzzyRightRow == <<[key |-> "k", val |-> JsStr(<<"b">>)]>>
FuzzyConditions == <<Cond("k", "k"), Cond("j", "j")>>

\* the results a search can have over n right rows: s gives the score of
\* every row found, -1 for a row not found
Found(s) ==
  LET rs == SelectSeq(IdxSeq(Len(s)), LAMBDA r : s[r] # -1)
  IN [n \in 1..Len(rs) |-> [r |-> rs[n], score |-> s[rs[n]]]]
Searches(n) == {Found(s) : s \in [1..n -> FuzzyScores \cup {-1}]}

\* a call of _performJoin with fuzzyOptions.enabled
InitFuzzy ==
  /\ leftDataset \in {ds \in SeqsUpTo(FuzzyLeftRows, MaxFuzzyLeft) : ds # <<>>}
  /\ rightDataset \in SeqsUpTo({FuzzyRightRow}, MaxFuzzyRows - Len(leftDataset))
  /\ \E nc \in 1..Len(FuzzyConditions), joinType \in JoinTypes,
        useOrLogic \in BOOLEAN, sortFuzzyResults \in BOOLEAN,
        includeScoreInResult \in BOOLEAN :
       \E found \in [1..Len(leftDataset) -> [1..nc -> Searches(Len(rightDataset))]] :
         fuzzy = [joinConditions |-> SubSeq(FuzzyConditions, 1, nc),
                  joinType |-> joinType,
                  fuzzyOptions |-> [threshold |-> Threshold,
                                    maxResultsPerKey |-> MaxResultsPerKey,
                                    useOrLogic |-> useOrLogic,
                                    sortFuzzyResults |-> sortFuzzyResults,
                                    includeScoreInResult |-> includeScoreInResult],
                  found |-> found,
                  pc |-> "call",
                  joinedRows |-> <<>>]
  /\ signatures = <<>> /\ wrapped = <<>> /\ exec = NoExec /\ MoreUnused
  /\ trackingOptions = <<>> /\ currentResults = <<>> /\ executions = <<>>
  /\ previousExecutions = <<>> /\ markedResults = <<>> /\ tpc = "done"
  /\ joinConfig = <<>> /\ joinSpecs = <<>> /\ fetches = <<>>
  /\ multiResult = <<>> /\ steps = <<>> /\ outcome = NoOutcome
  /\ joinStrategies = <<>>
  /\ jpc = "done" /\ jidx = 1 /\ joinResults = <<>>
  /\ bestJoinName = NoName /\ bestJoinCount = -1
  /\ bestJoin = [name |-> NoName, count |-> -1, data |-> <<>>]
  /\ StoreUnused

\* _performFuzzyJoin runs and returns
FuzzyJoin ==
  /\ fuzzy # <<>>
  /\ fuzzy.pc = "call"
  /\ fuzzy' = [fuzzy EXCEPT
                 !.pc = "done",
                 !.joinedRows = _performFuzzyJoin(leftDataset, rightDataset,
                                                  fuzzy.joinConditions, fuzzy.joinType,
                                                  "none", fuzzy.fuzzyOptions, fuzzy.found)]
  /\ UNCHANGED <<trackOwn, signatures, wrapped, exec, stats, moreVars>>
  /\ UNCHANGED <<joinOwn, storeVars>>

SpecFuzzy == InitFuzzy /\ [][FuzzyJoin]_vars

(***************************************************************************)
(* _mergeRows called on two rows with scalar values.  The fields are a,    *)
(* right_a and _internal, in any order.                                    *)
(***************************************************************************)
MaxMergeFields == 3

MergeKeys == {"a", "right_a", "_internal"}
MergeValues == {JsNumber(One), JsNumber(<<"2">>)}
MergeRows ==
  {row \in SeqsUpTo([key : MergeKeys, val : MergeValues], MaxMergeFields) :
     \A i, j \in 1..Len(row) : row[i].key = row[j].key => i = j}
MergeArgs == {NullRow} \cup {SomeRow(row) : row \in MergeRows}

InitMerge ==
  /\ \E leftRow \in MergeArgs, rightRow \in MergeArgs :
       evaluated = [fn |-> "_mergeRows", leftRow |-> leftRow, rightRow |-> rightRow,
                    pc |-> "call", result |-> <<>>]
  /\ stats = <<>> /\ init = Initialized
  /\ signatures = <<>> /\ wrapped = <<>> /\ exec = NoExec /\ fuzzy = <<>>
  /\ trackingOptions = <<>> /\ currentResults = <<>> /\ executions = <<>>
  /\ previousExecutions = <<>> /\ markedResults = <<>> /\ tpc = "done"
  /\ joinConfig = <<>> /\ joinSpecs = <<>> /\ fetches = <<>>
  /\ multiResult = <<>> /\ steps = <<>> /\ outcome = NoOutcome
  /\ leftDataset = <<>> /\ rightDataset = <<>> /\ joinStrategies = <<>>
  /\ jpc = "done" /\ jidx = 1 /\ joinResults = <<>>
  /\ bestJoinName = NoName /\ bestJoinCount = -1
  /\ bestJoin = [name |-> NoName, count |-> -1, data |-> <<>>]
  /\ StoreUnused

\* _mergeRows(leftRow, rightRow) runs and returns
MergeRowsCall ==
  /\ evaluated # <<>>
  /\ evaluated.fn = "_mergeRows"
  /\ evaluated.pc = "call"
  /\ evaluated' = [evaluated EXCEPT
                     !.pc = "done",
                     !.result = _mergeRows(evaluated.leftRow, evaluated.rightRow, "none")]
  /\ UNCHANGED <<trackOwn, signatures, wrapped, exec, fuzzy, stats, init>>
  /\ UNCHANGED <<joinOwn, storeVars>>

SpecMerge == InitMerge /\ [][MergeRowsCall]_vars

(***************************************************************************)
(* _getNestedProperty on a path given as text.  Property names and paths   *)
(* are sequences of characters; a path is written from field steps         *)
(* (name) and array-index steps (name[i]) joined by '.'.                   *)
(***************************************************************************)
MaxSteps == 2

Includes(text, c) == \E i \in 1..Len(text) : text[i] = c

\* String.prototype.indexOf for one character, counted from 0
IndexOf(text, c) ==
  IF Includes(text, c)
  THEN (CHOOSE i \in 1..Len(text) : text[i] = c /\ \A j \in 1..(i - 1) : text[j] # c) - 1
  ELSE -1

\* String.prototype.substring(start, end)
Substring(text, start, end) ==
  LET clamp(n) == IF n < 0 THEN 0 ELSE IF n > Len(text) THEN Len(text) ELSE n
      from == IF clamp(start) <= clamp(end) THEN clamp(start) ELSE clamp(end)
      to == IF clamp(start) <= clamp(end) THEN clamp(end) ELSE clamp(start)
  IN SubSeq(text, from + 1, to)

\* path.split('.')
RECURSIVE Split(_)
Split(text) ==
  IF ~Includes(text, ".") THEN <<text>>
  ELSE <<Substring(text, 0, IndexOf(text, "."))>>
         \o Split(Substring(text, IndexOf(text, ".") + 1, Len(text)))

\* parseInt(text, 10) of an unsigned text: the leading digits, NaN without any
RECURSIVE LeadingDigits(_)
LeadingDigits(text) ==
  IF text = <<>> \/ ~Includes(Digits, Head(text)) THEN <<>>
  ELSE <<Head(text)>> \o LeadingDigits(Tail(text))

RECURSIVE DecimalValue(_)
DecimalValue(digits) ==
  IF digits = <<>> THEN 0
  ELSE 10 * DecimalValue(SubSeq(digits, 1, Len(digits) - 1)) + DigitValue(digits[Len(digits)])

ParseInt(text) ==
  IF LeadingDigits(text) = <<>> THEN NaN ELSE Num(DecimalValue(LeadingDigits(text)))

\* value[key] of a value that is neither null nor undefined
PropertyOf(value, key) ==
  IF value.t \in {"object", "array"} /\ HasOwn(value, key) THEN OwnGet(value, key)
  ELSE JsUndefined

\* array[index]
ElementAt(array, index) ==
  IF index \in 0..(Len(array.ps) - 1) THEN array.ps[index + 1] ELSE JsUndefined

\* the outcome of a step that throws a TypeError
Thrown == [t |-> "thrown", s |-> <<>>, ks |-> <<>>, ps |-> <<>>]

\* the callback of the reduce over the segments
NestedStep(current, key) ==
  IF Includes(key, "[") /\ Includes(key, "]")
  THEN LET propName == Substring(key, 0, IndexOf(key, "["))
           indexStr == Substring(key, IndexOf(key, "[") + 1, IndexOf(key, "]"))
           index == ParseInt(indexStr)
       IN IF IsNullish(current) THEN Thrown
          ELSE IF PropertyOf(current, propName).t = "array" /\ ~index.isNaN
               THEN ElementAt(PropertyOf(current, propName), index.n)
               ELSE JsNull
  ELSE IF ~IsNullish(current) /\ TypeofObject(current)
       THEN (IF PropertyOf(current, key).t # "undefined"
             THEN PropertyOf(current, key) ELSE JsNull)
       ELSE JsNull

RECURSIVE NestedReduce(_, _)
NestedReduce(current, keys) ==
  IF keys = <<>> THEN current
  ELSE IF NestedStep(current, Head(keys)).t = "thrown" THEN Thrown
  ELSE NestedReduce(NestedStep(current, Head(keys)), Tail(keys))

\* _getNestedProperty(obj, path) for any path text
GetNestedProperty(obj, path) ==
  IF IsNullish(obj) THEN JsNull
  ELSE IF path = <<>> THEN JsNull
  ELSE IF ~Includes(path, ".") THEN PropertyOf(obj, path)
  ELSE IF NestedReduce(obj, Split(path)).t = "thrown" THEN JsNull
  ELSE NestedReduce(obj, Split(path))

\* the steps of a path and the way they are written
FieldStep(name) == [name |-> name, indexed |-> FALSE, index |-> 0]
IndexStep(name, i) == [name |-> name, indexed |-> TRUE, index |-> i]
SegmentText(step) ==
  IF step.indexed THEN step.name \o <<"[">> \o <<DigitText(step.index)>> \o <<"]">>
  ELSE step.name
PathText(path) == JoinWith([i \in 1..Len(path) |-> SegmentText(path[i])], <<".">>)

PathNames == {<<"a">>, <<"b">>}
PathSteps ==
  {FieldStep(name) : name \in PathNames} \cup
  {IndexStep(name, i) : name \in PathNames, i \in 0..1}
Paths == SeqsUpTo(PathSteps, MaxSteps) \ {<<>>}

TextX == JsStr(<<"x">>)
TextY == JsStr(<<"y">>)
ArrayOf(ps) ==
  [t |-> "array", s |-> <<>>, ks |-> [i \in 1..Len(ps) |-> <<DigitText(i - 1)>>], ps |-> ps]
PathObjects ==
  {JsNull,
   JsObject(<< <<"a">> >>, <<TextX>>),
   JsObject(<< <<"a">>, <<"b">> >>, <<JsObject(<< <<"b">> >>, <<TextY>>), JsNull>>),
   JsObject(<< <<"a">> >>, <<ArrayOf(<<TextX, JsObject(<< <<"b">> >>, <<TextY>>)>>)>>),
   JsObject(<< <<"b">> >>, <<JsObject(<< <<"a">> >>, <<ArrayOf(<<TextX>>)>>)>>),
   JsObject(<< <<"a">> >>, <<ArrayOf(<<ArrayOf(<<TextY>>), JsNull>>)>>)}

InitPath ==
  /\ \E obj \in PathObjects, path \in Paths :
       evaluated = [fn |-> "_getNestedProperty", obj |-> obj, steps |-> path,
                    path |-> PathText(path), pc |-> "call", result |-> JsUndefined]
  /\ stats = <<>> /\ init = Initialized
  /\ signatures = <<>> /\ wrapped = <<>> /\ exec = NoExec /\ fuzzy = <<>>
  /\ trackingOptions = <<>> /\ currentResults = <<>> /\ executions = <<>>
  /\ previousExecutions = <<>> /\ markedResults = <<>> /\ tpc = "done"
  /\ joinConfig = <<>> /\ joinSpecs = <<>> /\ fetches = <<>>
  /\ multiResult = <<>> /\ steps = <<>> /\ outcome = NoOutcome
  /\ leftDataset = <<>> /\ rightDataset = <<>> /\ joinStrategies = <<>>
  /\ jpc = "done" /\ jidx = 1 /\ joinResults = <<>>
  /\ bestJoinName = NoName /\ bestJoinCount = -1
  /\ bestJoin = [name |-> NoName, count |-> -1, data |-> <<>>]
  /\ StoreUnused

\* _getNestedProperty(obj, path) runs and returns
NestedPropertyCall ==
  /\ evaluated # <<>>
  /\ evaluated.fn = "_getNestedProperty"
  /\ evaluated.pc = "call"
  /\ evaluated' = [evaluated EXCEPT
                     !.pc = "done",
                     !.result = GetNestedProperty(evaluated.obj, evaluated.path)]
  /\ UNCHANGED <<trackOwn, signatures, wrapped, exec, fuzzy, stats, init>>
  /\ UNCHANGED <<joinOwn, storeVars>>

SpecPath == InitPath /\ [][NestedPropertyCall]_vars

(***************************************************************************)
(* Store operations invoked on a QueryResultStore that is not initialized  *)
(* yet.  Every operation starts with await this._ensureInitialized() and   *)
(* then queries this.pool.  init.pool is this.pool (0 is null, the pools   *)
(* are numbered in the order of their creation), init.created counts the   *)
(* calls of new Pool.  A caller records the pools it connected to during   *)
(* initialize and the pool its operation queried.  The database is         *)
(* reachable, and the configuration is the default one, under which        *)
(* initialize leaves compressionEnabled as the constructor set it.         *)
(***************************************************************************)
MaxCallers == 3

Callers == 1..MaxCallers
NoPool == 0
Waiting == [pc |-> "idle", connected |-> <<>>, queried |-> NoPool]

InitOnce ==
  /\ init = [initialized |-> FALSE, pool |-> NoPool, created |-> 0,
             callers |-> [p \in Callers |-> Waiting]]
  /\ stats = <<>> /\ evaluated = <<>>
  /\ signatures = <<>> /\ wrapped = <<>> /\ exec = NoExec /\ fuzzy = <<>>
  /\ trackingOptions = <<>> /\ currentResults = <<>> /\ executions = <<>>
  /\ previousExecutions = <<>> /\ markedResults = <<>> /\ tpc = "done"
  /\ joinConfig = <<>> /\ joinSpecs = <<>> /\ fetches = <<>>
  /\ multiResult = <<>> /\ steps = <<>> /\ outcome = NoOutcome
  /\ leftDataset = <<>> /\ rightDataset = <<>> /\ joinStrategies = <<>>
  /\ jpc = "done" /\ jidx = 1 /\ joinResults = <<>>
  /\ bestJoinName = NoName /\ bestJoinCount = -1
  /\ bestJoin = [name |-> NoName, count |-> -1, data |-> <<>>]
  /\ StoreUnused

\* an operation is invoked: _ensureInitialized, and initialize up to its
\* first await (new Pool, this.pool.connect())
EnsureInitialized(p) ==
  /\ init.callers[p].pc = "idle"
  /\ IF init.initialized
     THEN init' = [init EXCEPT !.callers[p].pc = "ready"]
     ELSE init' = [init EXCEPT
                     !.pool = init.created + 1,
                     !.created = init.created + 1,
                     !.callers[p].connected = <<init.created + 1>>,
                     !.callers[p].pc = "connecting"]
  /\ UNCHANGED <<trackOwn, signatures, wrapped, exec, fuzzy, stats, evaluated>>
  /\ UNCHANGED <<joinOwn, storeVars>>

\* the test connection is released; _createTables connects to this.pool
CreateTables(p) ==
  /\ init.callers[p].pc = "connecting"
  /\ init' = [init EXCEPT
                !.callers[p].connected = Append(init.callers[p].connected, init.pool),
                !.callers[p].pc = "creating"]
  /\ UNCHANGED <<trackOwn, signatures, wrapped, exec, fuzzy, stats, evaluated>>
  /\ UNCHANGED <<joinOwn, storeVars>>

\* _createTables returned: this.initialized = true, initialize returns
InitializeReturn(p) ==
  /\ init.callers[p].pc = "creating"
  /\ init' = [init EXCEPT !.initialized = TRUE, !.callers[p].pc = "ready"]
  /\ UNCHANGED <<trackOwn, signatures, wrapped, exec, fuzzy, stats, evaluated>>
  /\ UNCHANGED <<joinOwn, storeVars>>

\* the operation goes on after _ensureInitialized: this.pool.query(...)
PoolQuery(p) ==
  /\ init.callers[p].pc = "ready"
  /\ init' = [init EXCEPT !.callers[p].queried = init.pool, !.callers[p].pc = "done"]
  /\ UNCHANGED <<trackOwn, signatures, wrapped, exec, fuzzy, stats, evaluated>>
  /\ UNCHANGED <<joinOwn, storeVars>>

NextOnce ==
  \/ \E p \in Callers : EnsureInitialized(p)
  \/ \E p \in Callers : CreateTables(p)
  \/ \E p \in Callers : InitializeReturn(p)
  \/ \E p \in Callers : PoolQuery(p)

SpecOnce == InitOnce /\ [][NextOnce]_vars

(***************************************************************************)
(* The three row-by-row scans over one source dataset: joinQueries with    *)
(* one exact strategy on id = id, _performFuzzyJoin on the same datasets   *)
(* and condition, and processResultTracking of the left dataset against    *)
(* one previous execution that returned the right dataset.                 *)
(***************************************************************************)
MaxScanRows == 2

ScanRows ==
  {<<Field("id", JsNumber(One)), Field("name", JsStr(One))>>,
   <<Field("id", JsStr(One))>>}

InitOrder ==
  /\ leftDataset \in SeqsUpTo(ScanRows, MaxScanRows)
  /\ rightDataset \in SeqsUpTo(ScanRows, MaxScanRows)
  /\ \E type \in JoinTypes, sortFuzzyResults \in BOOLEAN :
       \E found \in [1..Len(leftDataset) -> [1..1 -> Searches(Len(rightDataset))]] :
         /\ joinStrategies = <<[name |-> "byKey", conditions |-> <<Cond("id", "id")>>,
                                type |-> type]>>
         /\ fuzzy = [joinConditions |-> <<Cond("id", "id")>>,
                     joinType |-> type,
                     fuzzyOptions |-> [threshold |-> Threshold,
                                       maxResultsPerKey |-> MaxResultsPerKey,
                                       useOrLogic |-> FALSE,
                                       sortFuzzyResults |-> sortFuzzyResults,
                                       includeScoreInResult |-> FALSE],
                     found |-> found,
                     pc |-> "call",
                     joinedRows |-> <<>>]
  /\ trackingOptions = HashOnly
  /\ currentResults = leftDataset
  /\ executions = <<[id |-> 1, query_signature |-> "same", status |-> "completed",
                     results |-> Some(rightDataset), started_at |-> 1,
                     completed_at |-> Some(1)]>>
  /\ previousExecutions = <<>>
  /\ markedResults = <<>>
  /\ tpc = "fetch"
  /\ signatures = <<>> /\ wrapped = <<>> /\ exec = NoExec /\ MoreUnused
  /\ joinConfig = <<>> /\ joinSpecs = <<>> /\ fetches = <<>>
  /\ multiResult = <<>> /\ steps = <<>> /\ outcome = NoOutcome
  /\ jpc = "loop" /\ jidx = 1 /\ joinResults = <<>>
  /\ bestJoinName = NoName /\ bestJoinCount = -1
  /\ bestJoin = [name |-> NoName, count |-> -1, data |-> <<>>]
  /\ StoreUnused

NextOrder == RunStrategy \/ JoinReturn \/ FuzzyJoin \/ TrackFetch \/ TrackMark

SpecOrder == InitOrder /\ [][NextOrder]_vars

(***************************************************************************)
(* Properties of the exact join (SpecJoin: one strategy, condition k = k). *)
(***************************************************************************)
\* the equality rules as documented
DocEqual(a, b) ==
  \/ IsNullish(a) /\ IsNullish(b)
  \/ a.t = "date" /\ b.t = "date" /\ a.s = b.s
  \/ a.t = "array" /\ b.t = "array" /\ Len(a.ps) = Len(b.ps)
     /\ \A i \in 1..Len(a.ps) : a.ps[i] = b.ps[i]
  \/ a.t = "object" /\ b.t = "object"
     /\ {a.ks[i] : i \in 1..Len(a.ks)} = {b.ks[i] : i \in 1..Len(b.ks)}
     /\ \A i \in 1..Len(a.ks) : OwnGet(a, a.ks[i]) = OwnGet(b, a.ks[i])
  \/ IsPrimitive(a) /\ IsPrimitive(b) /\ a = b

KeyOfRow(row) == IF Has(row, "k") THEN Get(row, "k") ELSE JsUndefined
TheStrategy == joinStrategies[1]
JoinedRows == Get(joinResults, TheStrategy.name).data
StrategyRan == jidx > 1
RowsOf(l, r) == {n \in 1..Len(JoinedRows) : JoinedRows[n].l = l /\ JoinedRows[n].r = r}
SatisfiesConditions(i, j) ==
  _compareJoinConditions(TheStrategy.conditions, SomeRow(leftDataset[i]), SomeRow(rightDataset[j]))

\* C1: an exact inner join on one equality condition emits exactly one merged
\* row for every (left row, right row) pair whose key values are equal under
\* the documented rules, and no other row; values that only share a string
\* form do not join.
C1_InnerJoinExactPairs ==
  (StrategyRan /\ TheStrategy.type = "inner") =>
    /\ \A i \in 1..Len(leftDataset) : \A j \in 1..Len(rightDataset) :
         Cardinality(RowsOf(i, j)) =
           IF DocEqual(KeyOfRow(leftDataset[i]), KeyOfRow(rightDataset[j])) THEN 1 ELSE 0
    /\ \A n \in 1..Len(JoinedRows) :
         /\ JoinedRows[n].l \in 1..Len(leftDataset)
         /\ JoinedRows[n].r \in 1..Len(rightDataset)
         /\ JoinedRows[n].row =
              _mergeRows(SomeRow(leftDataset[JoinedRows[n].l]),
                         SomeRow(rightDataset[JoinedRows[n].r]), "none")

\* a left row 1 met a right row 1 and a right row "1": one joined row
C1_Witness ==
  /\ StrategyRan /\ TheStrategy.type = "inner"
  /\ Len(leftDataset) = 1 /\ Len(rightDataset) = 2
  /\ KeyOfRow(leftDataset[1]) = JsNumber(One)
  /\ KeyOfRow(rightDataset[1]) = JsStr(One)
  /\ KeyOfRow(rightDataset[2]) = JsNumber(One)
  /\ Len(JoinedRows) = 1 /\ JoinedRows[1].r = 2

\* C2: in an exact left or full join every left row that no right row
\* satisfies the join conditions with appears exactly once, merged with a
\* null right side (the left row's own fields only), whatever its composite
\* key string is.
C2_UnmatchedLeftKept ==
  (StrategyRan /\ TheStrategy.type \in {"left", "full"}) =>
    \A i \in 1..Len(leftDataset) :
      (\A j \in 1..Len(rightDataset) : ~SatisfiesConditions(i, j)) =>
        /\ Cardinality({n \in 1..Len(JoinedRows) : JoinedRows[n].l = i}) = 1
        /\ \A n \in 1..Len(JoinedRows) :
             JoinedRows[n].l = i => JoinedRows[n].r = 0 /\ JoinedRows[n].row = leftDataset[i]

\* C3: in an exact right or full join every right row (by position) that
\* was not accepted as a match of a left row appears exactly once, merged
\* with a null left side, after all left-driven rows and in right-dataset
\* order; an accepted right row never appears as unmatched.
C3_UnmatchedRightAppended ==
  (StrategyRan /\ TheStrategy.type \in {"right", "full"}) =>
    LET leftDriven == SelectSeq(JoinedRows, LAMBDA o : o.l # 0)
        rightOnly == SelectSeq(JoinedRows, LAMBDA o : o.l = 0)
        accepted == {leftDriven[n].r : n \in 1..Len(leftDriven)}
        unmatched == SelectSeq(IdxSeq(Len(rightDataset)), LAMBDA j : j \notin accepted)
    IN /\ JoinedRows = leftDriven \o rightOnly
       /\ rightOnly = [n \in 1..Len(unmatched) |->
                         Joined(rightDataset[unmatched[n]], 0, unmatched[n])]

\* a full join where the first right row was accepted and the second was
\* not
C3_Witness ==
  /\ StrategyRan /\ TheStrategy.type = "full"
  /\ Len(rightDataset) = 2 /\ Len(leftDataset) = 1
  /\ Len(JoinedRows) = 2
  /\ JoinedRows[1].l = 1 /\ JoinedRows[1].r = 1
  /\ JoinedRows[2].l = 0 /\ JoinedRows[2].r = 2
  /\ JoinedRows[2].row = rightDataset[2]

(***************************************************************************)
(* Properties of the best-join selection (SpecBest).                       *)
(***************************************************************************)
CountOf(i) ==
  Len(_performJoin(leftDataset, rightDataset, joinStrategies[i].conditions,
                   joinStrategies[i].type, "none"))
MaxCount == CHOOSE c \in {CountOf(i) : i \in 1..Len(joinStrategies)} :
              \A i \in 1..Len(joinStrategies) : CountOf(i) <= c
FirstMax == CHOOSE i \in 1..Len(joinStrategies) :
              CountOf(i) = MaxCount /\ \A j \in 1..(i - 1) : CountOf(j) < MaxCount
DistinctNames ==
  \A i, j \in 1..Len(joinStrategies) : i # j => joinStrategies[i].name # joinStrategies[j].name

\* C4: bestJoin is the lowest-index strategy whose row count is the maximum
\* over all strategies; when every strategy yields 0 rows it is the first
\* strategy.  (joinResults is keyed by name: the rows returned with bestJoin
\* are those of that strategy when the strategy names are distinct.)
C4_BestIsFirstMax ==
  jpc = "done" =>
    /\ bestJoin.name = joinStrategies[FirstMax].name
    /\ bestJoin.count = CountOf(FirstMax)
    /\ (\A i \in 1..Len(joinStrategies) : CountOf(i) = 0) =>
         bestJoin.name = joinStrategies[1].name /\ bestJoin.count = 0
    /\ DistinctNames => Len(bestJoin.data) = CountOf(FirstMax)

\* two strategies of different names tie on a positive count: the first
\* is selected
C4_Witness ==
  /\ jpc = "done"
  /\ Len(joinStrategies) = 2
  /\ CountOf(1) = CountOf(2) /\ CountOf(1) > 0
  /\ joinStrategies[1].name # joinStrategies[2].name
  /\ bestJoin.name = joinStrategies[1].name
  /\ Len(bestJoin.data) = CountOf(1)

(***************************************************************************)
(* Properties of the query result store.                                   *)
(***************************************************************************)
\* the getResultById calls that returned
Returned(op) == {p \in Calls : calls[p].op = op /\ calls[p].pc = "idle"}
ListedIds(c) == {c.list[i].id : i \in 1..Len(c.list)}

\* C5: a getResultById that starts after the storeResult of its id returned,
\* and that returns a result, returns the rows that were stored, whichever
\* tier held them and whether the cache or the table served them.
C5_RoundTrip ==
  \A p \in Returned("get") :
    LET c == calls[p] IN
    (c.out.status = "ok" /\ IsSome(c.obs.stored)) =>
       ValOf(c.out.value).data = c.obs.stored

\* C6: once deleteResult(id) has returned and no storeResult used the id
\* since, the id is neither in the table nor in the cache, and a
\* getResultById(id) that started after the return fails with not-found.
C6_DeletedStaysGone ==
  \A id \in Ids :
    hist[id].deleted =>
      /\ table[id] = <<>>
      /\ ~CacheHas(resultsCache, id)
      /\ \A p \in Returned("get") :
           (calls[p].id = id /\ calls[p].obs.gone) => calls[p].out.status = "notfound"

\* C7: an id is in the cache only if a row with the id was inserted before,
\* and the step in which an INSERT fails leaves the cache as it was.
FailedInsertStep ==
  \E p \in Calls : /\ calls[p].op = "store" /\ calls[p].pc = "insert"
                   /\ calls'[p].pc = "idle" /\ calls'[p].out.status = "error"
CachedOnlyIfInserted == \A id \in Ids : CacheHas(resultsCache, id) => hist[id].inserted
C7_CacheAfterInsert ==
  /\ []CachedOnlyIfInserted
  /\ [][FailedInsertStep => resultsCache' = resultsCache]_vars

\* a storeResult has cached its id after its INSERT while another storeResult
\* of the id has failed
C7_Witness ==
  \E p, q \in Returned("store") :
    /\ calls[p].id = calls[q].id
    /\ calls[p].out.status = "ok"
    /\ calls[q].out.status = "error"
    /\ CacheHas(resultsCache, calls[p].id)
    /\ table[calls[p].id] # <<>>

\* C8: once updateResultMetadata(id, u) has returned, with no other update
\* or storeResult of the id in flight, the cached entry of the id, which a getResultById served
\* from the cache returns, has the metadata, tags and ttl of the row.
C8_CacheMatchesRow ==
  \A id \in Ids :
    (/\ hist[id].updated
     /\ ~InFlight({"update"}, id)
     /\ CacheHas(resultsCache, id)
     /\ table[id] # <<>>) =>
       LET cachedResult == CacheValue(resultsCache, id)
           row == table[id][1]
       IN /\ cachedResult.metadata = Some(row.metadata)
          /\ cachedResult.tags = row.tags
          /\ cachedResult.ttl = row.ttl

\* C9: a result stored with ttlSeconds = t > 0, neither deleted nor updated,
\* is in every matching listing taken and returned by every getResultById
\* started before createdAt + t; once a cleanupExpiredResults that read the
\* clock after createdAt + t has returned, the row is gone, no getResultById
\* is served from the cache, and a getResultById started after the return
\* fails with not-found.
C9_TtlLifecycle ==
  /\ \A p \in Returned("list") : calls[p].obs.fresh \subseteq ListedIds(calls[p])
  /\ \A p \in Returned("get") : calls[p].obs.fresh # {} => calls[p].out.status = "ok"
  /\ \A id \in Ids :
       hist[id].swept =>
         /\ table[id] = <<>>
         /\ ~IsSome(CacheLookup(resultsCache, id, now))
         /\ \A p \in Returned("get") :
              (calls[p].id = id /\ calls[p].obs.gone) => calls[p].out.status = "notfound"

\* C10: reads do not look at ttl.  A result that was inserted stays in the
\* table until a deleteResult or a cleanupExpiredResults deletes it; a
\* getResultById that finds the id in the cache is served from the cache, one
\* that misses it returns the row if the table has it, and a listing shows
\* every matching result, whether or not its ttl has passed.
C10_ExpiryNotEnforcedOnRead ==
  /\ \A id \in Ids : IsSome(hist[id].live) => table[id] # <<>>
  /\ \A p \in Returned("get") :
       LET c == calls[p] IN
       /\ c.obs.cached => (c.out.status = "ok" /\ c.out.fromCache)
       /\ (~c.obs.cached /\ c.obs.existed) => c.out.status = "ok"
  /\ \A p \in Returned("list") : calls[p].obs.expect \subseteq ListedIds(calls[p])

\* a getResultById has returned, from the table, a result whose ttl had
\* passed when the row was read, and a listing has shown such a result
C10_Witness ==
  /\ \E p \in Returned("get") :
       LET c == calls[p] IN
       /\ c.out.status = "ok" /\ ~c.out.fromCache
       /\ IsSome(ValOf(c.out.value).ttl)
       /\ ValOf(ValOf(c.out.value).ttl) < c.obs.readAt
  /\ \E p \in Returned("list") :
       \E i \in 1..Len(calls[p].list) :
         /\ IsSome(calls[p].list[i].ttl)
         /\ ValOf(calls[p].list[i].ttl) < calls[p].obs.readAt

\* C11: the row of an id has the id and, as row_count, the length of the
\* data given to storeResult; the cached entry of an id, a result returned by
\* getResultById and a listing entry report that id and that count, also
\* after updates and sweeps.
C11_RowCountFixed ==
  /\ \A id \in Ids :
       /\ table[id] # <<>> =>
            /\ IsSome(hist[id].live)
            /\ table[id][1].id = id
            /\ table[id][1].row_count = Len(OrElse(ValOf(hist[id].live).data, <<>>))
       /\ CacheHas(resultsCache, id) =>
            /\ CacheValue(resultsCache, id).id = id
            /\ CacheValue(resultsCache, id).rowCount =
                 Len(OrElse(CacheValue(resultsCache, id).data, <<>>))
  /\ \A p \in Returned("get") :
       calls[p].out.status = "ok" =>
         /\ ValOf(calls[p].out.value).id = calls[p].id
         /\ ValOf(calls[p].out.value).rowCount =
              Len(OrElse(ValOf(calls[p].out.value).data, <<>>))
  /\ \A p \in Returned("list") :
       \A i \in 1..Len(calls[p].list) :
         LET entry == calls[p].list[i] IN
         IsSome(hist[entry.id].live) =>
           entry.rowCount = Len(OrElse(ValOf(hist[entry.id].live).data, <<>>))

\* a result of one row was updated and then returned by getResultById with
\* the count 1
C11_Witness ==
  \E p \in Returned("get") :
    /\ calls[p].out.status = "ok"
    /\ ValOf(calls[p].out.value).rowCount = 1
    /\ IsSome(ValOf(calls[p].out.value).updatedAt)
    /\ table[calls[p].id] # <<>>
    /\ table[calls[p].id][1].row_count = 1
    /\ hist[calls[p].id].updated

\* C12: getResultsByTags(tags, matchAll) returns one entry for each row of
\* the table whose tags include every tag asked for (matchAll true or left
\* out) or share a tag with them (matchAll false), and no other entry; an
\* entry has the columns of its row without the data, and the entries are
\* ordered by creation time, newest first.
TagSetOf(id) == {ValOf(table[id][1].tags)[i] : i \in 1..Len(ValOf(table[id][1].tags))}
WantedByTags(tags, matchAll) ==
  LET asked == {tags[i] : i \in 1..Len(tags)} IN
  {id \in Ids :
     /\ table[id] # <<>>
     /\ IF matchAll \in {Undef, Some(TRUE)}
        THEN asked \subseteq TagSetOf(id)
        ELSE asked \cap TagSetOf(id) # {}}
C12_ListByTagsExact ==
  [][\A p \in Calls, tags \in TagLists, matchAll \in MatchAllArgs :
       getResultsByTags(p, tags, matchAll) =>
         LET rows == calls'[p].list IN
         /\ {rows[i].id : i \in 1..Len(rows)} = WantedByTags(tags, matchAll)
         /\ Len(rows) = Cardinality(WantedByTags(tags, matchAll))
         /\ \A i \in 1..Len(rows) :
              /\ "data" \notin DOMAIN rows[i]
              /\ rows[i].tags = table[rows[i].id][1].tags
              /\ rows[i].rowCount = table[rows[i].id][1].row_count
              /\ rows[i].createdAt = table[rows[i].id][1].created_at
         /\ \A i, j \in 1..Len(rows) : i < j => rows[i].createdAt >= rows[j].createdAt
    ]_vars

\* a listing has returned the newer of two results, the one tagged t1 and
\* t2, and not the older one tagged t1 only
C12_Witness ==
  \E p \in Returned("list") :
    /\ Len(calls[p].list) = 1
    /\ calls[p].list[1].tags = Some(<<"t1", "t2">>)
    /\ \E id \in Ids :
         /\ table[id] # <<>>
         /\ table[id][1].tags = Some(<<"t1">>)
         /\ table[id][1].created_at < calls[p].list[1].createdAt

\* C13: the UPDATE of updateResultMetadata(id, u) writes u.tags to tags iff u
\* has the key tags, writes the ttl computed from u.ttlSeconds iff u has the
\* key ttlSeconds, writes the row's metadata overlaid with u.metadata iff u
\* has the key metadata, and leaves every other column but updated_at as it
\* was.
Overlay(old, new) == {kv \in old : \A kv2 \in new : kv2[1] # kv[1]} \cup new
C13_UpdateFrame ==
  [][\A p \in Calls :
       (DbUpdate(p) /\ table[calls[p].id] # <<>>) =>
         LET u == calls[p].arg
             old == table[calls[p].id][1]
             new == table'[calls[p].id][1]
         IN /\ new.tags = IF Present(u.tags) THEN u.tags ELSE old.tags
            /\ new.ttl = IF Present(u.ttlSeconds)
                         THEN IF IsSome(u.ttlSeconds) /\ ValOf(u.ttlSeconds) # 0
                              THEN Some(calls[p].patch.updated_at + ValOf(u.ttlSeconds))
                              ELSE Null
                         ELSE old.ttl
            /\ new.metadata = IF Present(u.metadata)
                              THEN Overlay(old.metadata, OrElse(u.metadata, {}))
                              ELSE old.metadata
            /\ new.id = old.id
            /\ new.data = old.data
            /\ new.data_large = old.data_large
            /\ new.storage_type = old.storage_type
            /\ new.is_compressed = old.is_compressed
            /\ new.row_count = old.row_count
            /\ new.query_id = old.query_id
            /\ new.execution_id = old.execution_id
            /\ new.result_type = old.result_type
            /\ new.created_at = old.created_at
    ]_vars

\* C14: a row of the table is of the large tier iff the JSON text of the data
\* given to storeResult is longer than compressionThreshold, and inline
\* otherwise; it is compressed iff it is large and compression is enabled; a
\* large row has no data column and an inline row has no data_large column.
\* The text of n one-digit numbers has 2n + 1 characters, that of none has 2.
SerializedSize(rows) == IF rows = <<>> THEN 2 ELSE 2 * Len(rows) + 1
C14_TierClassification ==
  \A id \in Ids :
    table[id] # <<>> =>
      LET row == table[id][1]
          size == SerializedSize(OrElse(ValOf(hist[id].live).data, <<>>))
      IN /\ row.storage_type = IF size > compressionThreshold THEN "large" ELSE "json"
         /\ row.is_compressed = (size > compressionThreshold /\ compressionEnabled)
         /\ row.is_compressed => row.storage_type = "large"
         /\ row.storage_type = "large" => (row.data = Null /\ IsSome(row.data_large))
         /\ row.storage_type = "json" => (row.data_large = Null /\ IsSome(row.data))

\* a row set whose text is exactly as long as the threshold is stored inline
\* next to a longer one that is stored large and compressed
C14_Witness ==
  \E id1, id2 \in Ids :
    /\ table[id1] # <<>> /\ table[id2] # <<>>
    /\ SerializedSize(OrElse(ValOf(hist[id1].live).data, <<>>)) = compressionThreshold
    /\ table[id1][1].storage_type = "json"
    /\ table[id2][1].storage_type = "large"
    /\ table[id2][1].is_compressed

\* a storeResult that passed its INSERT
Succeeded(c) ==
  c.op = "store" /\ (c.pc = "cache" \/ (c.pc = "idle" /\ c.out.status = "ok"))
\* a storeResult that threw
Failed(c) == c.op = "store" /\ c.pc = "idle" /\ c.out.status = "error"

\* C15: while no deleteResult runs, a storeResult whose id is persisted when
\* its INSERT executes throws, and its step changes neither the table nor the
\* cache; of the storeResult calls with one id at most one passes its INSERT
\* and none fails unless a row of the id is persisted; once the successful
\* call has returned the cache entry of the id holds the data of that call.
C15_DuplicateIdRejected ==
  /\ [](\A p, q \in Calls :
          (p # q /\ calls[p].id = calls[q].id) => ~(Succeeded(calls[p]) /\ Succeeded(calls[q])))
  /\ [](\A p \in Calls :
          Failed(calls[p]) => (table[calls[p].id] # <<>> /\ IsSome(hist[calls[p].id].live)))
  /\ [](\A id \in Ids :
          (hist[id].returned /\ ~InFlight({"store"}, id)) =>
             /\ CacheHas(resultsCache, id)
             /\ CacheValue(resultsCache, id).data = ValOf(hist[id].live).data)
  /\ [][\A p \in Calls :
          (/\ calls[p].op = "store" /\ calls[p].pc = "insert"
           /\ table[calls[p].id] # <<>>
           /\ calls'[p].pc # "insert")
          => (/\ Failed(calls'[p])
              /\ table' = table
              /\ resultsCache' = resultsCache)]_vars

\* the first two calls were storeResult calls of one id in flight together:
\* one has returned, the other has thrown, and the cache holds the data of
\* the one that returned
C15_Witness ==
  /\ opsLeft = MaxReuseOps - 2
  /\ \E p, q \in Calls :
       /\ calls[p].id = "r1" /\ calls[q].id = "r1"
       /\ Succeeded(calls[p]) /\ calls[p].pc = "idle"
       /\ Failed(calls[q])
  /\ CacheHas(resultsCache, "r1")
  /\ CacheValue(resultsCache, "r1").data = ValOf(hist["r1"].live).data

\* a fetch that resolved with success = false
FailedFetches == {i \in 1..Len(fetches) : fetches[i].state = "done" /\ ~fetches[i].success}
NothingStored ==
  /\ \A id \in Ids : table[id] = <<>>
  /\ \A p \in Calls : calls[p].op = "none"

\* C16: once a fetch of joinQueries or joinMultipleQueries has reported
\* failure no strategy and no join step is executed and nothing is stored,
\* and the call returns success = false with an error that names a source
\* whose fetch failed: the first or second query, or the query index.
C16_FetchFailureAborts ==
  FailedFetches # {} =>
    /\ steps = <<>>
    /\ joinResults = <<>>
    /\ multiResult = <<>>
    /\ NothingStored
    /\ jpc = "done" =>
         /\ ~outcome.success
         /\ outcome.error.kind = "fetch"
         /\ outcome.error.index \in FailedFetches

\* joinQueries has returned after its first fetch gave a row and its second
\* failed
C16_Witness ==
  /\ jpc = "done"
  /\ joinConfig # <<>>
  /\ fetches[1].success /\ fetches[1].data # <<>>
  /\ FailedFetches = {2}
  /\ outcome = Failure("fetch", 2)

\* a strategy or join spec with a non-empty conditions array
IsStrategyShape(e) == IsSome(e.conditions) /\ ValOf(e.conditions) # <<>>
\* a legacy single-condition object
IsLegacyShape(e) == IsSome(e.leftKey) /\ IsSome(e.rightKey)
\* neither a list of strategies, nor a list of legacy conditions, nor one
\* strategy object
MalformedConfig(config) ==
  LET items == config.items IN
  \/ items = <<>>
  \/ ~config.isArray /\ ~IsStrategyShape(items[1])
  \/ \E i \in 1..Len(items) : ~IsStrategyShape(items[i]) /\ ~IsLegacyShape(items[i])
  \/ \E i, j \in 1..Len(items) : IsStrategyShape(items[i]) /\ ~IsStrategyShape(items[j])
MalformedSpecs(specs) == \E i \in 1..Len(specs) : ~IsStrategyShape(specs[i])
FetchStarted == \E i \in 1..Len(fetches) : fetches[i].state # "none"

\* C17: with a malformed join configuration (an unrecognized shape, a strategy
\* or join spec without conditions or with an empty condition list, a list
\* that mixes strategies with other elements) joinQueries and
\* joinMultipleQueries start no fetch and return a failure.
C17_MalformedFailsFast ==
  ((jpc # "mcall" /\ joinConfig # <<>> /\ MalformedConfig(joinConfig))
   \/ (joinConfig = <<>> /\ MalformedSpecs(joinSpecs)))
  => /\ ~FetchStarted
     /\ jpc = "done" => ~outcome.success

\* the accumulated result after joining the sources 1..i from left to right,
\* source i on the right, with joinSpecs[i - 1] and its type
RECURSIVE Folded(_)
Folded(i) ==
  IF i = 1 THEN fetches[1].data
  ELSE Plain(_performJoin(Folded(i - 1), fetches[i].data,
                          ValOf(joinSpecs[i - 1].conditions),
                          OrElse(joinSpecs[i - 1].type, "inner"), "none"))
AllSucceeded == \A i \in 1..Len(fetches) : fetches[i].state = "done" /\ fetches[i].success

\* C18: joinMultipleQueries given fewer than two sources, or a number of join
\* specs other than sourceCount - 1, starts no fetch and returns a failure;
\* otherwise, once all fetches have succeeded and it has returned, it has
\* made exactly sourceCount - 1 join steps in order, step i joining the
\* accumulated result on the left with source i on the right by
\* joinSpecs[i - 1], and it returns the last accumulated row set.
C18_MultiJoinFold ==
  joinConfig = <<>> =>
    IF Len(fetches) < 2 \/ Len(joinSpecs) # Len(fetches) - 1
    THEN /\ ~FetchStarted
         /\ steps = <<>>
         /\ jpc = "done" => ~outcome.success
    ELSE (AllSucceeded /\ jpc = "done") =>
           /\ outcome.success
           /\ Len(steps) = Len(fetches) - 1
           /\ \A i \in 1..Len(steps) :
                /\ steps[i].right = i + 1
                /\ steps[i].spec = i
                /\ steps[i].left = Folded(i)
           /\ multiResult = Folded(Len(fetches))

\* the executions the tracking compares with: completed, of the same query
\* signature, with an array of result rows
Eligible ==
  {e \in 1..Len(executions) :
     /\ executions[e].query_signature = "same"
     /\ executions[e].status = "completed"
     /\ IsSome(executions[e].results)}
PriorSignatures ==
  {generateRowSignature(ValOf(executions[e].results)[i], trackingOptions) :
     <<e, i>> \in {<<e, i>> \in Eligible \X (1..MaxTrackedRows) :
                     i <= Len(ValOf(executions[e].results))}}

\* C19: processResultTracking on a row set equal to the results of the one
\* eligible previous execution marks every row isNew = false with
\* occurrenceCount = 2; on a row set that has no row signature in common with
\* an eligible previous execution it marks every row isNew = true with
\* occurrenceCount = 1.
C19_TrackingCounts ==
  tpc = "done" =>
    /\ (\E e \in Eligible :
          Eligible = {e} /\ ValOf(executions[e].results) = currentResults)
       => \A i \in 1..Len(markedResults) :
            ~markedResults[i].isNew /\ markedResults[i].occurrenceCount = 2
    /\ (\A i \in 1..Len(currentResults) :
          generateRowSignature(currentResults[i], trackingOptions) \notin PriorSignatures)
       => \A i \in 1..Len(markedResults) :
            markedResults[i].isNew /\ markedResults[i].occurrenceCount = 1

\* the key/value pairs of a row
Pairs(row) == {row[i] : i \in 1..Len(row)}

\* C20: under every marking strategy two rows that hold the same key/value
\* pairs, in whatever order they were inserted, get the same row signature.
C20_SignatureOrderInvariant ==
  tpc = "done" =>
    \A i, j \in 1..Len(markedResults) :
      Pairs(currentResults[i]) = Pairs(currentResults[j])
      => markedResults[i].signature = markedResults[j].signature

\* two rows with the same pairs in different orders were given the same
\* signature, which is not that of a row with other pairs
C20_Witness ==
  /\ tpc = "done"
  /\ Len(markedResults) = 2
  /\ currentResults[1] # currentResults[2]
  /\ Pairs(currentResults[1]) = Pairs(currentResults[2])
  /\ markedResults[1].signature = markedResults[2].signature
  /\ markedResults[1].signature #
       generateRowSignature(<<Field("id", JsStr(One))>>, trackingOptions)

\* the words of a SQL text: its maximal runs of characters that are not
\* whitespace, in lower case
RECURSIVE WordsFrom(_, _)
WordsFrom(text, word) ==
  IF text = <<>> THEN IF word = <<>> THEN <<>> ELSE <<word>>
  ELSE IF Head(text) \in Whitespace
    THEN (IF word = <<>> THEN <<>> ELSE <<word>>) \o WordsFrom(Tail(text), <<>>)
  ELSE WordsFrom(Tail(text), Append(word, LowerChar(Head(text))))
Words(text) == WordsFrom(text, <<>>)
ParamNames(bindParams) == {bindParams[i].key : i \in 1..Len(bindParams)}

\* C21: two calls of generateQuerySignature give the same signature exactly
\* when their SQL texts are equal after collapsing whitespace runs, trimming
\* and lowercasing (they have the same words) and their parameter names are
\* the same set, whatever the order and the values of the parameters.
C21_QuerySignature ==
  \A i, j \in 1..Len(signatures) :
    (signatures[i].signature = signatures[j].signature)
    <=> (/\ Words(signatures[i].sql) = Words(signatures[j].sql)
         /\ ParamNames(signatures[i].bindParams) = ParamNames(signatures[j].bindParams))

\* two calls with SQL texts that differ in case and whitespace and with the
\* same parameter names in another order and with other values got one
\* signature
C21_Witness ==
  /\ Len(signatures) = 2
  /\ signatures[1].sql = <<"A", "\t", " ">>
  /\ signatures[2].sql = <<" ", "a">>
  /\ signatures[1].bindParams = <<Field("p", 1), Field("q", 2)>>
  /\ signatures[2].bindParams = <<Field("q", 1), Field("p", 1)>>
  /\ signatures[1].signature = signatures[2].signature

(***************************************************************************)
(* Properties of the ...WithStorage functions (SpecWrap).                  *)
(***************************************************************************)
\* the calls of storeResult made so far
StoreCalls == MaxWraps - opsLeft

\* C22: every result a ...WithStorage function returned carries a storage
\* field; storage.stored is true exactly when the wrapped operation
\* succeeded, storeResults was not false and storeResult succeeded (its row
\* is then in the table); a failed storeResult leaves success true; and
\* storeResult is called for no call whose operation failed or whose
\* storeResults is false
C22_StorageField ==
  /\ \A i \in 1..Len(wrapped) :
       LET w == wrapped[i] IN
       /\ w.pc = "returned" =>
            /\ IsSome(w.result.storage)
            /\ ValOf(w.result.storage).stored
                 <=> (/\ w.underlying.success
                      /\ w.options.storeResults # Some(FALSE)
                      /\ w.storeResult = "ok")
            /\ ValOf(w.result.storage).stored
                 => table[ValOf(w.result.storage).resultId] # <<>>
            /\ w.storeResult = "error" => w.result.success
            /\ w.result.success = w.underlying.success
       /\ (~w.underlying.success \/ w.options.storeResults = Some(FALSE))
            => w.storeResult = "none"
  /\ StoreCalls = Cardinality({i \in 1..Len(wrapped) : wrapped[i].storeResult # "none"})

\* a join result was stored, then storeResult failed for a query result, and
\* both wrappers returned
C22_Witness ==
  /\ Len(wrapped) = 2
  /\ wrapped[1].wrapper = "joinQueriesWithStorage"
  /\ wrapped[1].pc = "returned"
  /\ ValOf(wrapped[1].result.storage).stored
  /\ wrapped[2].wrapper = "executeQueryWithStorage"
  /\ wrapped[2].pc = "returned"
  /\ wrapped[2].storeResult = "error"
  /\ ~ValOf(wrapped[2].result.storage).stored
  /\ wrapped[2].result.success

C24_TerminalStatusFinal ==
  [][exec.status \in TerminalStatuses => exec'.status = exec.status]_vars

(***************************************************************************)
(* Cache hits and cache misses of getResultById (SpecFresh).               *)
(***************************************************************************)
\* the fields a cache hit and a cache miss are compared in
RecordFields(r) ==
  [id |-> r.id, queryId |-> r.queryId, executionId |-> r.executionId,
   resultType |-> r.resultType, rowCount |-> r.rowCount, data |-> r.data,
   metadata |-> r.metadata, tags |-> r.tags, ttl |-> r.ttl]

\* C25: when no call is in flight, for every stored id that is in the cache
\* the record a getResultById returns from the cache has the same id,
\* queryId, executionId, resultType, rowCount, data, metadata, tags and ttl
\* as the record it returns when it reads the row of the table
C25_HitEqualsMiss ==
  (\A p \in Calls : calls[p].pc = "idle") =>
    \A id \in Ids :
      (CacheHas(resultsCache, id) /\ table[id] # <<>>) =>
        RecordFields(CacheValue(resultsCache, id))
          = RecordFields(FormattedResult(table[id][1]))

(***************************************************************************)
(* Concurrent updates of the metadata (SpecPair).                          *)
(***************************************************************************)
\* both callers updated the result id and their last calls have returned
BothUpdated(id) ==
  \A p \in Calls :
    /\ calls[p].op = "update" /\ calls[p].pc = "idle"
    /\ calls[p].id = id /\ calls[p].out.status = "ok"

\* C26: when updateResultMetadata calls that ran concurrently on one id,
\* each with a metadata key the other does not touch, have both returned,
\* the metadata of the row holds the keys and values of both
C26_NoLostUpdate ==
  \A id \in Ids :
    BothUpdated(id) =>
      {<<"a", 1>>, <<"b", 2>>} \subseteq table[id][1].metadata

(***************************************************************************)
(* The outcomes joinQueries returns (SpecCalls).                           *)
(***************************************************************************)
\* the rows strategy i of a joinQueries call produces
StrategyRows(i) ==
  _performJoin(leftDataset, rightDataset, joinStrategies[i].conditions,
               joinStrategies[i].type, "none")

JoinSucceeded == jpc = "done" /\ joinConfig # <<>> /\ outcome.success

\* C27: a joinQueries call that ran N strategies returns N entries in
\* joinResults, and the entry of every strategy holds the rows and the count
\* of that strategy, whether the names of the strategies are different, equal
\* or missing
C27_OneOutcomePerStrategy ==
  JoinSucceeded =>
    /\ Len(joinResults) = Len(joinStrategies)
    /\ \A i \in 1..Len(joinStrategies) :
         /\ Has(joinResults, joinStrategies[i].name)
         /\ Get(joinResults, joinStrategies[i].name).data = StrategyRows(i)
         /\ Get(joinResults, joinStrategies[i].name).count = Len(StrategyRows(i))

\* the strategy joinQueries selects: the first one of the greatest count
SelectedStrategy ==
  CHOOSE i \in 1..Len(joinStrategies) :
    /\ \A j \in 1..Len(joinStrategies) : Len(StrategyRows(j)) <= Len(StrategyRows(i))
    /\ \A j \in 1..(i - 1) : Len(StrategyRows(j)) < Len(StrategyRows(i))

\* C28: in every successful result of joinQueries bestJoin.data is the row
\* set the selected strategy produced and bestJoin.count is its length, for
\* canonical strategies with and without a name, legacy conditions and a
\* single strategy object
C28_BestJoinData ==
  JoinSucceeded =>
    /\ bestJoin.data = StrategyRows(SelectedStrategy)
    /\ bestJoin.count = Len(bestJoin.data)

(***************************************************************************)
(* Properties of the fuzzy join (SpecFuzzy).                               *)
(***************************************************************************)
FuzzyDone == fuzzy # <<>> /\ fuzzy.pc = "done"

\* the output rows merged from left row l and right row r
OutputOf(l, r) ==
  {n \in 1..Len(fuzzy.joinedRows) : fuzzy.joinedRows[n].l = l /\ fuzzy.joinedRows[n].r = r}

\* C29: in a fuzzy join of type left or full a left row for which no right
\* row was accepted is in the output exactly once, merged with a null right
\* side; in a fuzzy join of type right or full a right row that was accepted
\* for no left row is in the output exactly once, merged with a null left
\* side
C29_FuzzyUnmatchedKept ==
  FuzzyDone =>
    /\ fuzzy.joinType \in {"left", "full"} =>
         \A l \in 1..Len(leftDataset) :
           (\A r \in 1..Len(rightDataset) : OutputOf(l, r) = {})
           => /\ Cardinality(OutputOf(l, 0)) = 1
              /\ \A n \in OutputOf(l, 0) :
                   fuzzy.joinedRows[n].row = _mergeRows(SomeRow(leftDataset[l]), NullRow, "none")
    /\ fuzzy.joinType \in {"right", "full"} =>
         \A r \in 1..Len(rightDataset) :
           (\A l \in 1..Len(leftDataset) : OutputOf(l, r) = {})
           => /\ Cardinality(OutputOf(0, r)) = 1
              /\ \A n \in OutputOf(0, r) :
                   fuzzy.joinedRows[n].row = _mergeRows(NullRow, SomeRow(rightDataset[r]), "none")

\* the scores the conditions searched for left row l gave right row r
ScoresOf(l, r) ==
  LET patterns == SearchPatterns(leftDataset[l], fuzzy.joinConditions)
      scoreAt(c) == LET ms == SelectSeq(Sliced(fuzzy.found[l][c], fuzzy.fuzzyOptions),
                                        LAMBDA m : m.r = r)
                    IN IF ms = <<>> THEN -1 ELSE ms[1].score
      matched == SelectSeq(patterns, LAMBDA c : scoreAt(c) # -1)
  IN [n \in 1..Len(matched) |-> scoreAt(matched[n])]
Average(scores) == SumOf(scores) \div Len(scores)

\* C30: right row r is accepted for left row l exactly when at least one
\* condition matched it under OR logic, or all conditions matched it, and
\* the average of the scores of the conditions that matched it is at most
\* the threshold; the pair is then in the output once, its rows are ordered
\* by that average when the results are sorted, and that average is the
\* _fuzzyScore attached under includeScoreInResult
C30_FuzzyAcceptance ==
  FuzzyDone =>
    /\ \A l \in 1..Len(leftDataset), r \in 1..Len(rightDataset) :
         LET scores == ScoresOf(l, r) IN
         /\ OutputOf(l, r) # {}
              <=> /\ \/ fuzzy.fuzzyOptions.useOrLogic /\ Len(scores) >= 1
                     \/ Len(scores) = Len(fuzzy.joinConditions)
                  /\ Average(scores) <= fuzzy.fuzzyOptions.threshold
         /\ Cardinality(OutputOf(l, r)) <= 1
         /\ \A n \in OutputOf(l, r) :
              /\ fuzzy.joinedRows[n].score = Average(scores)
              /\ fuzzy.fuzzyOptions.includeScoreInResult =>
                   Get(fuzzy.joinedRows[n].row, "_fuzzyScore")
                     = JsNumber(<<DigitText(Average(scores))>>)
    /\ fuzzy.fuzzyOptions.sortFuzzyResults =>
         \A n, m \in 1..Len(fuzzy.joinedRows) :
           LET a == fuzzy.joinedRows[n]
               b == fuzzy.joinedRows[m]
           IN (n < m /\ a.l = b.l /\ a.l # 0 /\ a.r # 0 /\ b.r # 0)
              => Average(ScoresOf(a.l, a.r)) <= Average(ScoresOf(b.l, b.r))

(***************************************************************************)
(* Properties of _mergeRows (SpecMerge).                                   *)
(***************************************************************************)
MergeDone == evaluated # <<>> /\ evaluated.fn = "_mergeRows" /\ evaluated.pc = "done"

\* C31: the merged row has every field of the left row with its left
\* value; a field of the right row that the left row lacks is added under
\* its own name; a field of the right row whose value differs from the left
\* one is added under right_<name>; no field of the right row whose name
\* starts with '_' is added
C31_MergeKeepsLeft ==
  MergeDone =>
    LET left == evaluated.leftRow.fields
        right == evaluated.rightRow.fields
        result == evaluated.result
    IN /\ \A i \in 1..Len(left) :
            Has(result, left[i].key) /\ Get(result, left[i].key) = left[i].val
       /\ \A j \in 1..Len(right) :
            LET key == right[j].key
                value == right[j].val
            IN IF key \in InternalKeys
                 THEN Has(result, key) => Has(left, key)
               ELSE IF ~Has(left, key)
                 THEN Has(result, key) /\ Get(result, key) = value
               ELSE Get(left, key) # value
                    => Has(result, "right_" \o key) /\ Get(result, "right_" \o key) = value

(***************************************************************************)
(* Properties of the tracking of rows with nested values (SpecNested).     *)
(***************************************************************************)
\* the fields of a row that are not internal
Visible(row) == SelectSeq(row, LAMBDA f : f.key \notin InternalKeys)

\* two rows have the same non-internal fields with deep-equal values
DeepEqualRows(a, b) ==
  /\ \A i \in 1..Len(Visible(a)) :
       Has(b, Visible(a)[i].key) /\ Get(b, Visible(a)[i].key) = Visible(a)[i].val
  /\ \A j \in 1..Len(Visible(b)) : Has(a, Visible(b)[j].key)

\* the rows of the previous executions
PriorRows ==
  Flatten([e \in 1..Len(previousExecutions) |-> ValOf(previousExecutions[e].results)])

\* C32: under the hash strategy without hashFields a row to which no row of
\* the previous executions is deep-equal in its non-internal fields, be the
\* difference inside a nested object or array, is marked isNew; two rows
\* have the same signature only if they are deep-equal in these fields
C32_DeepContentSignature ==
  tpc = "done" =>
    \A i \in 1..Len(markedResults) :
      /\ (\A n \in 1..Len(PriorRows) : ~DeepEqualRows(currentResults[i], PriorRows[n]))
           => markedResults[i].isNew
      /\ \A n \in 1..Len(PriorRows) :
           generateRowSignature(currentResults[i], trackingOptions)
             = generateRowSignature(PriorRows[n], trackingOptions)
           => DeepEqualRows(currentResults[i], PriorRows[n])

(***************************************************************************)
(* firstSeen and lastSeen (SpecTrack).                                     *)
(***************************************************************************)
\* the times of the previous executions that hold a row of the signature
TimesOf(signature) ==
  {SeenAt(previousExecutions[e]) :
     e \in {e \in 1..Len(previousExecutions) :
              /\ IsSome(previousExecutions[e].results)
              /\ \E n \in 1..Len(ValOf(previousExecutions[e].results)) :
                   generateRowSignature(ValOf(previousExecutions[e].results)[n],
                                        trackingOptions) = signature}}
Earliest(times) == CHOOSE t \in times : \A u \in times : t <= u
Latest(times) == CHOOSE t \in times : \A u \in times : u <= t

\* C33: firstSeen of an entry of the index is the time of the earliest and
\* lastSeen the time of the latest previous execution that holds the
\* signature, so firstSeen <= lastSeen; a repeated row carries these values
\* as firstSeen and lastSeenBefore
C33_FirstSeenBeforeLastSeen ==
  tpc = "done" =>
    LET index == buildPreviousResultsIndex(previousExecutions, trackingOptions) IN
    /\ \A signature \in DOMAIN index :
         /\ index[signature].firstSeen = Earliest(TimesOf(signature))
         /\ index[signature].lastSeen = Latest(TimesOf(signature))
         /\ index[signature].firstSeen <= index[signature].lastSeen
    /\ \A i \in 1..Len(markedResults) :
         ~markedResults[i].isNew
         => /\ markedResults[i].firstSeen = Earliest(TimesOf(markedResults[i].signature))
            /\ markedResults[i].lastSeenBefore
                 = Some(Latest(TimesOf(markedResults[i].signature)))

(***************************************************************************)
(* Properties of getTrackingStatistics (SpecStatistics).                   *)
(***************************************************************************)
\* the executions of the query id that have a stored result snapshot
WithSnapshot ==
  SelectSeq(executions, LAMBDA e : e.query_id = "q1" /\ IsSome(e.results))

\* C34: the statistics of a query id that has executions with stored
\* results hold one trend entry for each of these executions, with
\* newRows + repeatingRows = totalRows = the number of its rows, and
\* totalUniqueRows is the number of different row signatures over them
C34_StatisticsPerExecution ==
  (tpc = "returned" /\ WithSnapshot # <<>>) =>
    /\ Len(stats.executionTrends) = Len(WithSnapshot)
    /\ \A n \in 1..Len(stats.executionTrends) :
         LET trend == stats.executionTrends[n] IN
         /\ trend.executionId = WithSnapshot[n].id
         /\ trend.totalRows = Len(ValOf(WithSnapshot[n].results))
         /\ trend.newRows + trend.repeatingRows = trend.totalRows
    /\ stats.totalUniqueRows
         = Cardinality(UNION {SignaturesOf(ValOf(WithSnapshot[n].results)) :
                                n \in 1..Len(WithSnapshot)})

(***************************************************************************)
(* The stats of processResultTracking (SpecTrack).                         *)
(***************************************************************************)
\* twice the distance between n and a / b, times b
TwiceDistance(n, a, b) == IF 2 * a >= 2 * n * b THEN 2 * a - 2 * n * b ELSE 2 * n * b - 2 * a

\* C35: for every row set, the empty one included, newRows +
\* previouslySeenRows = totalRows, and newRowPercentage is a whole number
\* from 0 to 100, the nearest one to 100 * newRows / totalRows
C35_SummaryConsistent ==
  tpc = "done" =>
    /\ stats.totalRows = Len(currentResults)
    /\ stats.newRows + stats.previouslySeenRows = stats.totalRows
    /\ ~stats.newRowPercentage.isNaN
    /\ stats.newRowPercentage.n \in 0..100
    /\ TwiceDistance(stats.newRowPercentage.n, 100 * stats.newRows, stats.totalRows)
         <= stats.totalRows

(***************************************************************************)
(* Properties of cleanupExpiredResults (SpecSweep).                        *)
(***************************************************************************)
\* the ids of the rows of the table whose ttl is set and has passed
PastTtl ==
  {id \in Ids : /\ table[id] # <<>>
                /\ IsSome(table[id][1].ttl)
                /\ ValOf(table[id][1].ttl) < now}

InScanOrder(joinedRows) ==
  \A n, m \in 1..Len(joinedRows) :
    (n < m /\ joinedRows[m].l # 0)
    => joinedRows[n].l # 0 /\ joinedRows[n].l <= joinedRows[m].l

\* C37: the exact join and the fuzzy join return their rows in the order of
\* the left dataset, unmatched right rows after all rows of left rows, and
\* processResultTracking returns one marked row per input row, in the order
\* of the input
C37_ScanOrderPreserved ==
  /\ \A e \in 1..Len(joinResults) : InScanOrder(joinResults[e].val.data)
  /\ jpc = "done" => InScanOrder(bestJoin.data)
  /\ InScanOrder(fuzzy.joinedRows)
  /\ tpc = "done" =>
       /\ Len(markedResults) = Len(currentResults)
       /\ \A i \in 1..Len(currentResults) : markedResults[i].row = currentResults[i]

\* a full join of two left rows with two right rows returned rows of both
\* left rows and an unmatched right row from the exact and from the fuzzy
\* join, and two rows were marked
C37_Witness ==
  /\ jpc = "done" /\ fuzzy.pc = "done" /\ tpc = "done"
  /\ fuzzy.joinType = "full"
  /\ Len(leftDataset) = 2 /\ Len(rightDataset) = 2
  /\ \A joinedRows \in {bestJoin.data, fuzzy.joinedRows} :
       /\ \E n \in 1..Len(joinedRows) : joinedRows[n].l = 1 /\ joinedRows[n].r # 0
       /\ \E n \in 1..Len(joinedRows) : joinedRows[n].l = 2
       /\ \E n \in 1..Len(joinedRows) : joinedRows[n].l = 0
  /\ Len(markedResults) = 2


\* the value reached from a value by one step: the field, or the element of
\* the array in the field; Absent when the value has no such field or element
Absent == [t |-> "absent", s |-> <<>>, ks |-> <<>>, ps |-> <<>>]
Reached(value, step) ==
  IF value.t \notin {"object", "array"} \/ ~HasOwn(value, step.name) THEN Absent
  ELSE IF ~step.indexed THEN OwnGet(value, step.name)
  ELSE IF OwnGet(value, step.name).t = "array"
          /\ step.index < Len(OwnGet(value, step.name).ps)
       THEN OwnGet(value, step.name).ps[step.index + 1]
       ELSE Absent

RECURSIVE Traverse(_, _)
Traverse(value, path) ==
  IF path = <<>> THEN value
  ELSE IF Reached(value, Head(path)).t = "absent" THEN Absent
  ELSE Traverse(Reached(value, Head(path)), Tail(path))

PathDone ==
  /\ evaluated # <<>>
  /\ evaluated.fn = "_getNestedProperty"
  /\ evaluated.pc = "done"

\* C38: for every path of field steps and array-index steps, a single
\* bracketed segment included, _getNestedProperty returns the value reached
\* by traversing the object along the steps, and null or undefined when a
\* step is missing; it never throws
C38_PathTraversal ==
  PathDone =>
    IF Traverse(evaluated.obj, evaluated.steps).t = "absent"
    THEN IsNullish(evaluated.result)
    ELSE evaluated.result = Traverse(evaluated.obj, evaluated.steps)


\* the pools a caller touched: those of its initialize and that of its query
PoolsOf(p) ==
  {init.callers[p].connected[i] : i \in 1..Len(init.callers[p].connected)}
    \cup ({init.callers[p].queried} \ {NoPool})

\* C39: however many operations are invoked on a store that is not yet
\* initialized, initialize runs at most once, at most one pool is ever
\* created, and every operation uses that pool
C39_InitializedOnce ==
  init.callers # <<>> =>
    /\ init.created <= 1
    /\ Cardinality({p \in Callers : init.callers[p].connected # <<>>}) <= 1
    /\ \A p, q \in Callers : \A a \in PoolsOf(p), b \in PoolsOf(q) : a = b

====
